---------------------------- MODULE Spec2Model ----------------------------
(***************************************************************************)
(* A model of the Tailscale plugin for Caddy: the per-node configuration   *)
(* cascade (module.go: getAuthKey, getControlURL, getHostname, ...), the   *)
(* reference-counted pool of nodes (module.go: nodes, getNode), the        *)
(* listeners handed out on a node (tailscaleNode.Listen,                   *)
(* tsnetServerListener.Close) and the proxy transport (transport.go).      *)
(*                                                                         *)
(* Strings are sequences of symbols: "" is << >>, concatenation is \o.     *)
(* A configured value is a template: a sequence of parts, each a literal   *)
(* symbol, an {env.KEY} placeholder or a placeholder of an unknown         *)
(* namespace.                                                              *)
(***************************************************************************)
EXTENDS Integers, Sequences, FiniteSets, TLC

\* ------------------------------------------------------------------ bounds

\* How many pool entries (usagePoolVal) are ever created in one behaviour.
MaxNodes == 3
\* How many wrapped listeners are ever handed out in one behaviour.
MaxListeners == 2
\* How many getNode calls are started in one behaviour.
MaxAcquires == 3

\* The goroutines that call into the plugin.
Procs == {"p1", "p2"}

\* ----------------------------------------------------------------- strings

Empty == << >>
Str(sym) == <<sym>>

\* The node names used as listener hosts and transport names.
Names == {Str("a"), Str("b")}

Lit(sym)     == [kind |-> "lit", v |-> sym]
EnvPh(key)   == [kind |-> "env", v |-> key]
UnknownPh(k) == [kind |-> "unknown", v |-> k]

\* strings.ToUpper on the symbols of a node name.
UpperSym(c) == CASE c = "a" -> "A" [] c = "b" -> "B" [] OTHER -> c
ToUpper(s) == [i \in 1..Len(s) |-> UpperSym(s[i])]

\* os.Getenv: the value of an unset variable is "".
Getenv(env, key) == IF key \in DOMAIN env THEN env[key] ELSE Empty

Ok(v)  == [val |-> v, err |-> "nil"]
Err(e) == [val |-> Empty, err |-> e]

\* One part of a template, as caddy.Replacer evaluates it with errOnEmpty
\* and errOnUnknown both set.
ReplacePart(part, env) ==
    CASE part.kind = "lit" -> Ok(Str(part.v))
      [] part.kind = "env" ->
            IF Getenv(env, Str(part.v)) = Empty
            THEN Err("empty placeholder")
            ELSE Ok(Getenv(env, Str(part.v)))
      [] OTHER -> Err("unrecognized placeholder")

\* repl.ReplaceOrErr(t, true, true): left to right, the first error wins.
RECURSIVE ReplaceOrErr(_, _)
ReplaceOrErr(t, env) ==
    IF t = << >> THEN Ok(Empty)
    ELSE LET h == ReplacePart(Head(t), env)
         IN  IF h.err # "nil" THEN h
             ELSE LET r == ReplaceOrErr(Tail(t), env)
                  IN  IF r.err # "nil" THEN r ELSE Ok(h.val \o r.val)

\* ------------------------------------------------------------ configuration

OAuthPrefix == "tskey-client-"
HasOAuthPrefix(s) == Len(s) > 0 /\ s[1] = OAuthPrefix

HasNode(app, name) == name \in DOMAIN app.Nodes

\* getTags: app-level then node-level tags, duplicates removed.
RECURSIVE Dedup(_, _)
Dedup(tags, seen) ==
    IF tags = << >> THEN << >>
    ELSE IF Head(tags) \in seen THEN Dedup(Tail(tags), seen)
         ELSE <<Head(tags)>> \o Dedup(Tail(tags), seen \cup {Head(tags)})

getTags(name, app) ==
    Dedup(app.Tags \o (IF HasNode(app, name) THEN app.Nodes[name].Tags ELSE << >>), {})

\* getEphemeral that takes a node-level false for an absent value.
getEphemeral_FalseIsAbsent(name, app) ==
    IF HasNode(app, name) /\ app.Nodes[name].Ephemeral = "true"
    THEN TRUE
    ELSE app.Ephemeral

getEphemeral(name, app) ==
    IF HasNode(app, name) /\ app.Nodes[name].Ephemeral # "unset"
    THEN app.Nodes[name].Ephemeral = "true"
    ELSE app.Ephemeral

getWebUI(name, app) ==
    IF HasNode(app, name) /\ app.Nodes[name].WebUI # "unset"
    THEN app.Nodes[name].WebUI = "true"
    ELSE app.WebUI

getPort(name, app) == IF HasNode(app, name) THEN app.Nodes[name].Port ELSE 0

\* The key issued by tsClient.CreateKey for a node.
IssuedKey(name) == <<"tskey-auth-">> \o name

\* resolveAuthKey: a key without the OAuth client prefix is returned as it
\* is; otherwise a key is requested (ext.createKey is the outcome of the
\* token exchange and key issuance).  The result also records whether a
\* request was made, with which secret, client ID and tags.
resolveAuthKey(authKey, name, app, env, ext) ==
    IF ~HasOAuthPrefix(authKey)
    THEN [val |-> authKey, err |-> "nil", exchange |-> FALSE,
          secret |-> Empty, clientID |-> Empty, tags |-> << >>]
    ELSE [val |-> IF ext.createKey = "ok" THEN IssuedKey(name) ELSE Empty,
          err |-> IF ext.createKey = "ok" THEN "nil" ELSE "failed to create auth key",
          exchange |-> TRUE,
          secret |-> authKey,
          clientID |-> Getenv(env, Str("TS_API_CLIENT_ID")),
          tags |-> getTags(name, app)]

NoExchange(r) ==
    [val |-> r.val, err |-> r.err, exchange |-> FALSE,
     secret |-> Empty, clientID |-> Empty, tags |-> << >>]

\* NodeAuthKey that treats a failed expansion as an unset key.
NodeAuthKey_IgnoresError(name, app, env) ==
    IF HasNode(app, name) /\ app.Nodes[name].AuthKey # << >>
       /\ ReplaceOrErr(app.Nodes[name].AuthKey, env).err = "nil"
    THEN ReplaceOrErr(app.Nodes[name].AuthKey, env)
    ELSE Ok(Empty)

\* getAuthKey, lines 225-232: the node-level key.
NodeAuthKey(name, app, env) ==
    IF HasNode(app, name) /\ app.Nodes[name].AuthKey # << >>
    THEN ReplaceOrErr(app.Nodes[name].AuthKey, env)
    ELSE Ok(Empty)

\* getAuthKey, lines 234-239: the app-level default key.
DefaultAuthKeyOf(app, env) ==
    IF app.DefaultAuthKey # << >>
    THEN ReplaceOrErr(app.DefaultAuthKey, env)
    ELSE Ok(Empty)

\* EnvAuthKey that prefers TS_AUTHKEY to TS_AUTHKEY_<HOST>.
EnvAuthKey_GlobalFirst(name, env) ==
    IF Getenv(env, Str("TS_AUTHKEY")) # Empty
    THEN Getenv(env, Str("TS_AUTHKEY"))
    ELSE Getenv(env, <<"TS_AUTHKEY_">> \o ToUpper(name))

\* getAuthKey, lines 241-250: TS_AUTHKEY_<HOST>, then TS_AUTHKEY.
EnvAuthKey(name, env) ==
    IF Getenv(env, <<"TS_AUTHKEY_">> \o ToUpper(name)) # Empty
    THEN Getenv(env, <<"TS_AUTHKEY_">> \o ToUpper(name))
    ELSE Getenv(env, Str("TS_AUTHKEY"))

\* getAuthKey that refuses to go on without a key.
getAuthKey_EmptyIsError(name, app, env, ext) ==
    LET n == NodeAuthKey(name, app, env) IN
    IF n.err # "nil" THEN NoExchange(Err(n.err))
    ELSE LET d == IF n.val = Empty THEN DefaultAuthKeyOf(app, env) ELSE n IN
         IF d.err # "nil" THEN NoExchange(Err(d.err))
         ELSE LET k == IF d.val = Empty THEN EnvAuthKey(name, env) ELSE d.val IN
              IF k = Empty THEN NoExchange(Err("no auth key"))
              ELSE resolveAuthKey(k, name, app, env, ext)

getAuthKey(name, app, env, ext) ==
    LET n == NodeAuthKey(name, app, env) IN
    IF n.err # "nil" THEN NoExchange(Err(n.err))
    ELSE LET d == IF n.val = Empty THEN DefaultAuthKeyOf(app, env) ELSE n IN
         IF d.err # "nil" THEN NoExchange(Err(d.err))
         ELSE LET k == IF d.val = Empty THEN EnvAuthKey(name, env) ELSE d.val IN
              IF k = Empty THEN NoExchange(Ok(Empty))
              ELSE resolveAuthKey(k, name, app, env, ext)

getControlURL(name, app, env) ==
    IF HasNode(app, name) /\ app.Nodes[name].ControlURL # << >>
    THEN ReplaceOrErr(app.Nodes[name].ControlURL, env)
    ELSE ReplaceOrErr(app.ControlURL, env)

\* A nil *App.
NilApp == [isNil |-> TRUE]
IsNilApp(app) == "isNil" \in DOMAIN app

\* getHostname that never looks at the node's override.
getHostname_IgnoresOverride(name, app, env) == Ok(name)

getHostname(name, app, env) ==
    IF IsNilApp(app) THEN Ok(name)
    ELSE IF HasNode(app, name) /\ app.Nodes[name].Hostname # << >>
         THEN ReplaceOrErr(app.Nodes[name].Hostname, env)
         ELSE Ok(name)

\* filepath.Join of a directory and one more element: the result is
\* cleaned, so separators at the end of the directory do not double.
RECURSIVE TrimSlash(_)
TrimSlash(dir) ==
    IF Len(dir) > 1 /\ dir[Len(dir)] = "/" THEN TrimSlash(SubSeq(dir, 1, Len(dir) - 1)) ELSE dir

PathJoin(dir, elem) ==
    IF TrimSlash(dir) = <<"/">> THEN <<"/">> \o elem ELSE TrimSlash(dir) \o <<"/">> \o elem

\* getStateDir that makes a subdirectory under a node-level directory too.
getStateDir_AlwaysSubdir(name, app, env, ext) ==
    IF HasNode(app, name) /\ app.Nodes[name].StateDir # << >>
    THEN LET s == ReplaceOrErr(app.Nodes[name].StateDir, env)
         IN  IF s.err # "nil" THEN Err(s.err) ELSE Ok(PathJoin(s.val, name))
    ELSE IF app.StateDir # << >>
         THEN LET s == ReplaceOrErr(app.StateDir, env)
              IN  IF s.err # "nil" THEN Err(s.err) ELSE Ok(PathJoin(s.val, name))
         ELSE IF ext.configDir = "ok"
              THEN Ok(PathJoin(Str("~cfg"), <<"tsnet-caddy-">> \o name))
              ELSE Err("no config dir")

\* getStateDir; ext.configDir is the outcome of os.UserConfigDir.
getStateDir(name, app, env, ext) ==
    IF HasNode(app, name) /\ app.Nodes[name].StateDir # << >>
    THEN ReplaceOrErr(app.Nodes[name].StateDir, env)
    ELSE IF app.StateDir # << >>
         THEN LET s == ReplaceOrErr(app.StateDir, env)
              IN  IF s.err # "nil" THEN Err(s.err) ELSE Ok(PathJoin(s.val, name))
         ELSE IF ext.configDir = "ok"
              THEN Ok(PathJoin(Str("~cfg"), <<"tsnet-caddy-">> \o name))
              ELSE Err("no config dir")

\* The constructor passed to nodes.LoadOrNew in getNode: the settings of the
\* new tsnet.Server, or the first error.  ext.mkdir is the outcome of
\* os.MkdirAll on the state directory.
NoCfg == [AuthKey |-> Empty, ControlURL |-> Empty, Hostname |-> Empty, Dir |-> Empty,
          Ephemeral |-> FALSE, WebUI |-> FALSE, Port |-> 0]

NewNode(name, app, env, ext) ==
    LET ak == getAuthKey(name, app, env, ext)
        cu == getControlURL(name, app, env)
        hn == getHostname(name, app, env)
        sd == getStateDir(name, app, env, ext)
        failed(e, step) == [err |-> e, step |-> step, cfg |-> NoCfg, exchange |-> ak.exchange]
    IN  IF ak.err # "nil" THEN failed(ak.err, "AuthKey")
        ELSE IF cu.err # "nil" THEN failed(cu.err, "ControlURL")
        ELSE IF hn.err # "nil" THEN failed(hn.err, "Hostname")
        ELSE IF sd.err # "nil" THEN failed(sd.err, "StateDir")
        ELSE IF ext.mkdir # "ok" THEN failed("mkdir failed", "MkdirAll")
        ELSE [err |-> "nil", step |-> "done",
              cfg |-> [AuthKey |-> ak.val, ControlURL |-> cu.val, Hostname |-> hn.val,
                       Dir |-> sd.val, Ephemeral |-> getEphemeral(name, app),
                       WebUI |-> getWebUI(name, app), Port |-> getPort(name, app)],
              exchange |-> ak.exchange]

\* The outcomes of the calls that leave the process.
Exts == [createKey : {"ok", "err"}, configDir : {"ok", "err"}, mkdir : {"ok", "err"}]

\* -------------------------------------------------- configurations explored

DefaultNode == [AuthKey |-> << >>, ControlURL |-> << >>, Ephemeral |-> "unset",
                WebUI |-> "unset", Hostname |-> << >>, Port |-> 0,
                StateDir |-> << >>, Tags |-> << >>]

BaseApp == [DefaultAuthKey |-> <<Lit("tskey-auth-k")>>, ControlURL |-> << >>,
            Ephemeral |-> FALSE, WebUI |-> FALSE, StateDir |-> << >>,
            Tags |-> << >>, Nodes |-> << >>, logger |-> TRUE]

WithNode(app, name, node) ==
    [app EXCEPT !.Nodes = [n \in (DOMAIN app.Nodes) \cup {name} |->
                              IF n = name THEN node ELSE app.Nodes[n]]]

\* The app configurations of the lifecycle specification: no node blocks;
\* node a with a hostname override that is the name of node b; node b with
\* an auth key whose placeholder is of an unknown namespace.
MainApps ==
    { BaseApp,
      WithNode(BaseApp, Str("a"), [DefaultNode EXCEPT !.Hostname = <<Lit("b")>>]),
      WithNode(BaseApp, Str("b"), [DefaultNode EXCEPT !.AuthKey = <<UnknownPh("bad.placeholder")>>]) }

MainEnv == (Str("HOME") :> Str("~"))

\* Transport.Name as UnmarshalCaddyfile set it from the Caddyfile.
TransportName == Str("b")

\* ------------------------------------------------------------------- state

VARIABLES
    app,      \* the App configuration in effect
    env,      \* the process environment
    pool,     \* nodes (caddy.UsagePool): key -> index into upvs
    upvs,     \* every pool entry ever created: refs, construction state, node
    lns,      \* every tsnetServerListener ever handed out
    tr,       \* the proxy Transport
    pc,       \* where each goroutine is
    loc,      \* each goroutine's local variables
    ret,      \* the call that returned in the step just taken, if one did
    acq,      \* per node name: getNode calls that returned a node
    rel,      \* per node name: Close/Cleanup calls of its users that returned nil
    nacq,     \* getNode calls started
    rin,      \* the input of the resolver, parser and router specifications
    rout,     \* the result of a resolver or of the parser
    mux,      \* the tsnetMuxTransport: its default transport and its Once
    auth      \* the Auth module

vars == <<app, env, pool, upvs, lns, tr, pc, loc, ret, acq, rel, nacq, rin, rout, mux, auth>>

\* &tsnetMuxTransport{}: no default transport, the Once not yet run; made
\* counts the default transports constructed.
NewMux == [defaultTransport |-> 0, once |-> "new", made |-> 0]

\* new(Auth): no local client yet.
NewAuth == [localclient |-> <<"nil">>]

NoLoc == [op |-> "none", key |-> Empty, u |-> 0, owner |-> Empty, l |-> 0]
NoRet == [op |-> "none", key |-> Empty, owner |-> Empty, res |-> "none", u |-> 0,
          l |-> 0, found |-> FALSE, zero |-> FALSE, again |-> FALSE]

\* A usagePoolVal as LoadOrNew makes it: one reference, write-locked until
\* the constructor has returned.
NewUpv(key) ==
    [key |-> key, refs |-> 1, state |-> "creating", err |-> "nil",
     cfg |-> NoCfg, closed |-> FALSE, issue |-> 0]

\* Issue that hands out again the key issued earlier for the same name.
Issue_ReusesKey(u, r, ext) ==
    LET earlier == {w \in DOMAIN upvs : upvs[w].key = upvs[u].key /\ upvs[w].issue # 0}
    IN  IF r.exchange /\ ext.createKey = "ok"
        THEN IF earlier # {}
             THEN upvs[CHOOSE w \in earlier : TRUE].issue
             ELSE Cardinality({w \in DOMAIN upvs : upvs[w].issue # 0}) + 1
        ELSE 0

\* The serial number of the auth key that the constructor of entry u was
\* issued by tsClient.CreateKey, 0 when it was issued none: every call of
\* CreateKey issues a key that was not issued before.
Issue(u, r, ext) ==
    IF r.exchange /\ ext.createKey = "ok"
    THEN Cardinality({w \in DOMAIN upvs : upvs[w].issue # 0}) + 1
    ELSE 0

Remove(f, k) == [x \in (DOMAIN f) \ {k} |-> f[x]]
Put(f, k, v) == [x \in (DOMAIN f) \cup {k} |-> IF x = k THEN v ELSE f[x]]

\* nodes.References(key).
References(key) ==
    IF key \in DOMAIN pool THEN <<upvs[pool[key]].refs, TRUE>> ELSE <<0, FALSE>>

\* tsnet.Server.Close on the node of entry u.
ServerClose(u) == IF upvs[u].closed THEN "ErrClosed" ELSE "nil"

InitMain ==
    /\ app \in MainApps
    /\ env = MainEnv
    /\ pool = << >>
    /\ upvs = << >>
    /\ lns = << >>
    /\ tr = [Name |-> TransportName, state |-> "new", node |-> 0]
    /\ pc = [p \in Procs |-> "idle"]
    /\ loc = [p \in Procs |-> NoLoc]
    /\ ret = NoRet
    /\ acq = [n \in Names |-> 0]
    /\ rel = [n \in Names |-> 0]
    /\ nacq = 0
    /\ mux = NewMux
    /\ auth = NewAuth
    /\ rin = "none"
    /\ rout = "none"

\* ----------------------------------------------------------------- getNode

\* LoadOrNewLocked without the lookup: every call inserts a new entry.
LoadOrNewLocked_NoLookup(p, name, op) ==
    /\ pc[p] = "idle"
    /\ nacq < MaxAcquires
    /\ nacq' = nacq + 1
    /\ ret' = NoRet
    /\ Len(upvs) < MaxNodes
    /\ upvs' = Append(upvs, NewUpv(name))
    /\ pool' = Put(pool, name, Len(upvs) + 1)
    /\ pc' = [pc EXCEPT ![p] = "construct"]
    /\ loc' = [loc EXCEPT ![p] = [NoLoc EXCEPT !.op = op, !.key = name,
                                               !.u = Len(upvs) + 1, !.owner = name]]

\* getNode up to the end of LoadOrNew's critical section on the pool: a hit
\* takes a reference and goes on to wait for the entry's read lock; a miss
\* inserts a write-locked entry with one reference and goes on to construct.
LoadOrNewLocked(p, name, op) ==
    /\ pc[p] = "idle"
    /\ nacq < MaxAcquires
    /\ nacq' = nacq + 1
    /\ ret' = NoRet
    /\ IF name \in DOMAIN pool
       THEN /\ upvs' = [upvs EXCEPT ![pool[name]].refs = @ + 1]
            /\ pool' = pool
            /\ pc' = [pc EXCEPT ![p] = "wait"]
            /\ loc' = [loc EXCEPT ![p] = [NoLoc EXCEPT !.op = op, !.key = name,
                                                       !.u = pool[name], !.owner = name]]
       ELSE /\ Len(upvs) < MaxNodes
            /\ upvs' = Append(upvs, NewUpv(name))
            /\ pool' = Put(pool, name, Len(upvs) + 1)
            /\ pc' = [pc EXCEPT ![p] = "construct"]
            /\ loc' = [loc EXCEPT ![p] = [NoLoc EXCEPT !.op = op, !.key = name,
                                                       !.u = Len(upvs) + 1, !.owner = name]]

\* The calls of the three listener entry points: getTCPListener,
\* getTLSListener and getUDPListener.
ListenOps == {"listen", "listenTLS", "listenUDP"}

\* getNode returns to its caller: the listener entry point goes on to Listen,
\* Transport.Provision keeps the node and returns.
GetNodeReturns(p, u, err) ==
    LET op == loc[p].op
        key == loc[p].key
    IN  /\ acq' = IF err = "nil" THEN [acq EXCEPT ![key] = @ + 1] ELSE acq
        /\ IF err = "nil" /\ op \in ListenOps
           THEN /\ pc' = [pc EXCEPT ![p] = "got"]
                /\ ret' = NoRet
                /\ UNCHANGED <<loc, tr>>
           ELSE /\ pc' = [pc EXCEPT ![p] = "idle"]
                /\ loc' = [loc EXCEPT ![p] = NoLoc]
                /\ ret' = [NoRet EXCEPT !.op = op, !.key = key, !.owner = key,
                                        !.res = IF err = "nil" THEN "ok" ELSE "err",
                                        !.u = u]
                /\ tr' = IF op = "provision"
                         THEN [tr EXCEPT !.state = IF err = "nil" THEN "provisioned" ELSE "failed",
                                         !.node = IF err = "nil" THEN u ELSE 0]
                         ELSE tr

\* Construct that leaves the entry of a failed construction in the pool.
Construct_KeepsFailedEntry(p) ==
    /\ pc[p] = "construct"
    /\ \E ext \in Exts :
         LET u == loc[p].u
             r == NewNode(loc[p].key, app, env, ext)
         IN  /\ upvs' = IF r.err = "nil"
                        THEN [upvs EXCEPT ![u].state = "ready", ![u].cfg = r.cfg,
                                          ![u].issue = Issue(u, r, ext)]
                        ELSE [upvs EXCEPT ![u].state = "failed", ![u].err = r.err,
                                          ![u].issue = Issue(u, r, ext)]
             /\ pool' = pool
             /\ GetNodeReturns(p, u, r.err)
    /\ UNCHANGED <<auth, mux, app, env, lns, rel, nacq, rin, rout>>

\* Construct that empties the pool when the construction failed.
Construct_FailureClearsPool(p) ==
    /\ pc[p] = "construct"
    /\ \E ext \in Exts :
         LET u == loc[p].u
             r == NewNode(loc[p].key, app, env, ext)
         IN  /\ IF r.err = "nil"
                THEN /\ upvs' = [upvs EXCEPT ![u].state = "ready", ![u].cfg = r.cfg,
                                              ![u].issue = Issue(u, r, ext)]
                     /\ pool' = pool
                ELSE /\ upvs' = [upvs EXCEPT ![u].state = "failed", ![u].err = r.err,
                                              ![u].issue = Issue(u, r, ext)]
                     /\ pool' = << >>
             /\ GetNodeReturns(p, u, r.err)
    /\ UNCHANGED <<auth, mux, app, env, lns, rel, nacq, rin, rout>>

\* The constructor runs and LoadOrNew finishes: the node is stored, or the
\* error is stored and the key is deleted from the pool; then the entry's
\* write lock is released.
Construct(p) ==
    /\ pc[p] = "construct"
    /\ \E ext \in Exts :
         LET u == loc[p].u
             r == NewNode(loc[p].key, app, env, ext)
         IN  /\ IF r.err = "nil"
                THEN /\ upvs' = [upvs EXCEPT ![u].state = "ready", ![u].cfg = r.cfg,
                                              ![u].issue = Issue(u, r, ext)]
                     /\ pool' = pool
                ELSE /\ upvs' = [upvs EXCEPT ![u].state = "failed", ![u].err = r.err,
                                              ![u].issue = Issue(u, r, ext)]
                     /\ pool' = Remove(pool, loc[p].key)
             /\ GetNodeReturns(p, u, r.err)
    /\ UNCHANGED <<auth, mux, app, env, lns, rel, nacq, rin, rout>>

\* Wait that resolves the settings of the node again from the configuration
\* in effect.
Wait_Reresolves(p) ==
    /\ pc[p] = "wait"
    /\ upvs[loc[p].u].state # "creating"
    /\ GetNodeReturns(p, loc[p].u, upvs[loc[p].u].err)
    /\ upvs' = IF upvs[loc[p].u].state = "ready"
               THEN [upvs EXCEPT ![loc[p].u].cfg =
                        NewNode(loc[p].key, app, env,
                                [createKey |-> "ok", configDir |-> "ok", mkdir |-> "ok"]).cfg]
               ELSE upvs
    /\ UNCHANGED <<auth, mux, app, env, pool, lns, rel, nacq, rin, rout>>

\* LoadOrNew on a hit: once the entry's write lock is released, read its
\* value and error.
Wait(p) ==
    /\ pc[p] = "wait"
    /\ upvs[loc[p].u].state # "creating"
    /\ GetNodeReturns(p, loc[p].u, upvs[loc[p].u].err)
    /\ UNCHANGED <<auth, mux, app, env, pool, upvs, lns, rel, nacq, rin, rout>>

\* ---------------------------------------------------------------- listeners

InFlightListens == Cardinality({q \in Procs : loc[q].op \in ListenOps})

\* getTCPListener / getTLSListener up to getNode's critical section.
ListenStart(p, name) ==
    /\ Len(lns) + InFlightListens < MaxListeners
    /\ LoadOrNewLocked(p, name, "listen")
    /\ UNCHANGED <<auth, mux, app, env, lns, tr, acq, rel, rin, rout>>

\* tailscaleNode.Listen: the listener of a node that is shut down fails;
\* otherwise r is what tsnet.Server.Listen returns.  The wrapped listener
\* takes its name from the node's Hostname.
Listen(p) ==
    /\ pc[p] = "got"
    /\ loc[p].op = "listen"
    /\ \E r \in {"ok", "err"} :
         LET u == loc[p].u
             res == IF upvs[u].closed THEN "err" ELSE r
         IN  /\ lns' = IF res = "ok"
                       THEN Append(lns, [name |-> upvs[u].cfg.Hostname, node |-> u,
                                         host |-> loc[p].key, open |-> TRUE,
                                         released |-> FALSE, kind |-> "tcp"])
                       ELSE lns
             /\ ret' = [NoRet EXCEPT !.op = "listen", !.key = loc[p].key,
                                     !.owner = loc[p].key, !.res = res, !.u = u,
                                     !.l = IF res = "ok" THEN Len(lns) + 1 ELSE 0]
    /\ pc' = [pc EXCEPT ![p] = "idle"]
    /\ loc' = [loc EXCEPT ![p] = NoLoc]
    /\ UNCHANGED <<auth, mux, app, env, pool, upvs, tr, acq, rel, nacq, rin, rout>>

\* DeleteLocked that reports a missing key as an error.
DeleteLocked_MissIsError(p, key, owner, op, l) ==
    IF key \notin DOMAIN pool
    THEN /\ pc' = [pc EXCEPT ![p] = "idle"]
         /\ loc' = [loc EXCEPT ![p] = NoLoc]
         /\ ret' = [NoRet EXCEPT !.op = op, !.key = key, !.owner = owner,
                                 !.res = "err", !.l = l]
         /\ UNCHANGED <<pool, upvs, rel>>
    ELSE LET u == pool[key] IN
         /\ upvs' = [upvs EXCEPT ![u].refs = @ - 1]
         /\ IF upvs[u].refs - 1 = 0
            THEN /\ pool' = Remove(pool, key)
                 /\ pc' = [pc EXCEPT ![p] = "destruct"]
                 /\ loc' = [loc EXCEPT ![p] = [op |-> op, key |-> key, u |-> u,
                                               owner |-> owner, l |-> l]]
                 /\ ret' = NoRet
                 /\ UNCHANGED rel
            ELSE /\ pool' = pool
                 /\ pc' = [pc EXCEPT ![p] = "idle"]
                 /\ loc' = [loc EXCEPT ![p] = NoLoc]
                 /\ ret' = [NoRet EXCEPT !.op = op, !.key = key, !.owner = owner,
                                         !.res = "ok", !.u = u, !.l = l, !.found = TRUE]
                 /\ rel' = [rel EXCEPT ![owner] = @ + 1]

\* nodes.Delete(key) up to the end of its critical section on the pool.
\* owner is the node the caller was using, l the listener being closed.
DeleteLocked(p, key, owner, op, l) ==
    IF key \notin DOMAIN pool
    THEN /\ pc' = [pc EXCEPT ![p] = "idle"]
         /\ loc' = [loc EXCEPT ![p] = NoLoc]
         /\ ret' = [NoRet EXCEPT !.op = op, !.key = key, !.owner = owner,
                                 !.res = "ok", !.l = l]
         /\ rel' = [rel EXCEPT ![owner] = @ + 1]
         /\ UNCHANGED <<pool, upvs>>
    ELSE LET u == pool[key] IN
         /\ upvs' = [upvs EXCEPT ![u].refs = @ - 1]
         /\ IF upvs[u].refs - 1 = 0
            THEN /\ pool' = Remove(pool, key)
                 /\ pc' = [pc EXCEPT ![p] = "destruct"]
                 /\ loc' = [loc EXCEPT ![p] = [op |-> op, key |-> key, u |-> u,
                                               owner |-> owner, l |-> l]]
                 /\ ret' = NoRet
                 /\ UNCHANGED rel
            ELSE /\ pool' = pool
                 /\ pc' = [pc EXCEPT ![p] = "idle"]
                 /\ loc' = [loc EXCEPT ![p] = NoLoc]
                 /\ ret' = [NoRet EXCEPT !.op = op, !.key = key, !.owner = owner,
                                         !.res = "ok", !.u = u, !.l = l, !.found = TRUE]
                 /\ rel' = [rel EXCEPT ![owner] = @ + 1]

\* Destruct that returns without closing the node.
Destruct_NoClose(p) ==
    /\ pc[p] = "destruct"
    /\ upvs[loc[p].u].state # "creating"
    /\ ret' = [NoRet EXCEPT !.op = loc[p].op, !.key = loc[p].key, !.owner = loc[p].owner,
                            !.res = "ok", !.u = loc[p].u, !.l = loc[p].l,
                            !.found = TRUE, !.zero = TRUE]
    /\ rel' = [rel EXCEPT ![loc[p].owner] = @ + 1]
    /\ pc' = [pc EXCEPT ![p] = "idle"]
    /\ loc' = [loc EXCEPT ![p] = NoLoc]
    /\ UNCHANGED <<auth, mux, app, env, pool, upvs, lns, tr, acq, nacq, rin, rout>>

\* nodes.Delete after the count reached zero: with the entry's read lock,
\* Destruct the node (tailscaleNode.Destruct: tsnet.Server.Close, which also
\* closes the node's listeners).  An entry whose construction failed holds no
\* node.
Destruct(p) ==
    /\ pc[p] = "destruct"
    /\ upvs[loc[p].u].state # "creating"
    /\ LET u == loc[p].u
           err == IF upvs[u].state = "ready" THEN ServerClose(u) ELSE "nil"
       IN  /\ upvs' = IF upvs[u].state = "ready" THEN [upvs EXCEPT ![u].closed = TRUE] ELSE upvs
           /\ lns' = IF upvs[u].state = "ready"
                     THEN [i \in 1..Len(lns) |->
                             IF lns[i].node = u THEN [lns[i] EXCEPT !.open = FALSE] ELSE lns[i]]
                     ELSE lns
           /\ ret' = [NoRet EXCEPT !.op = loc[p].op, !.key = loc[p].key,
                                   !.owner = loc[p].owner,
                                   !.res = IF err = "nil" THEN "ok" ELSE "err",
                                   !.u = u, !.l = loc[p].l, !.found = TRUE, !.zero = TRUE]
           /\ rel' = IF err = "nil" THEN [rel EXCEPT ![loc[p].owner] = @ + 1] ELSE rel
    /\ pc' = [pc EXCEPT ![p] = "idle"]
    /\ loc' = [loc EXCEPT ![p] = NoLoc]
    /\ UNCHANGED <<auth, mux, app, env, pool, tr, acq, nacq, rin, rout>>

\* CloseFails that returns the error and decrements the usage all the same.
CloseFails_StillReleases(p, l) ==
    /\ pc[p] = "idle"
    /\ l \in 1..Len(lns)
    /\ ret' = [NoRet EXCEPT !.op = "close", !.key = lns[l].name, !.owner = lns[l].host,
                            !.res = "err", !.l = l, !.again = lns[l].released]
    /\ upvs' = IF lns[l].name \in DOMAIN pool
               THEN [upvs EXCEPT ![pool[lns[l].name]].refs = @ - 1]
               ELSE upvs
    /\ UNCHANGED <<auth, mux, app, env, pool, lns, tr, pc, loc, acq, rel, nacq, rin, rout>>

\* tsnetServerListener.Close when the underlying Close returns an error (a
\* tsnet listener that is closed returns net.ErrClosed; an open one may fail
\* with an error of its own): the error is returned.
CloseFails(p, l) ==
    /\ pc[p] = "idle"
    /\ l \in 1..Len(lns)
    /\ ret' = [NoRet EXCEPT !.op = "close", !.key = lns[l].name, !.owner = lns[l].host,
                            !.res = "err", !.l = l, !.again = lns[l].released]
    /\ UNCHANGED <<auth, mux, app, env, pool, upvs, lns, tr, pc, loc, acq, rel, nacq, rin, rout>>

\* tsnetServerListener.Close when the underlying Close returns nil: the
\* usage of the node named by the listener is decremented.
CloseReleases(p, l) ==
    /\ pc[p] = "idle"
    /\ l \in 1..Len(lns)
    /\ lns[l].kind # "udp"
    /\ lns[l].open
    /\ lns' = [lns EXCEPT ![l].open = FALSE, ![l].released = TRUE]
    /\ DeleteLocked(p, lns[l].name, lns[l].host, "close", l)
    /\ UNCHANGED <<auth, mux, app, env, tr, acq, nacq, rin, rout>>

\* ---------------------------------------------------------------- transport

\* Transport.Provision up to getNode's critical section.
ProvisionStart(p) ==
    /\ tr.state = "new"
    /\ \A q \in Procs : loc[q].op # "provision"
    /\ LoadOrNewLocked(p, tr.Name, "provision")
    /\ UNCHANGED <<auth, mux, app, env, lns, tr, acq, rel, rin, rout>>

\* Transport.Cleanup.  Caddy calls it when the module is unloaded, and also
\* right after a Provision that returned an error.
Cleanup(p) ==
    /\ pc[p] = "idle"
    /\ tr.state \in {"provisioned", "failed"}
    /\ tr' = [tr EXCEPT !.state = "cleaned"]
    /\ DeleteLocked(p, tr.Name, tr.Name, "cleanup", 0)
    /\ UNCHANGED <<auth, mux, app, env, lns, acq, nacq, rin, rout>>

Next ==
    \E p \in Procs :
        \/ \E n \in Names : ListenStart(p, n)
        \/ ProvisionStart(p)
        \/ Construct(p)
        \/ Wait(p)
        \/ Listen(p)
        \/ \E l \in 1..MaxListeners : CloseFails(p, l) \/ CloseReleases(p, l)
        \/ Destruct(p)
        \/ Cleanup(p)

Spec == InitMain /\ [][Next]_vars

\* ------------------------------------------ the lifecycle across config loads
\*
\* A seventh specification: the steps of the lifecycle specification with
\* an OAuth client secret for the default auth key, and a step that loads a
\* new configuration.  nodes is a package variable, so its entries outlive
\* the App of the configuration that created them.

\* The configuration loaded first and the one loaded after it: they differ
\* in a setting of every node, and the second one has a placeholder of an
\* unknown namespace in the control URL of node b.
OAuthApp(e) ==
    [BaseApp EXCEPT !.DefaultAuthKey = <<Lit(OAuthPrefix), Lit("cs")>>,
                    !.Tags = <<"tag:a">>, !.Ephemeral = e]
FirstApp == OAuthApp(FALSE)
SecondApp ==
    WithNode(OAuthApp(TRUE), Str("b"),
             [DefaultNode EXCEPT !.ControlURL = <<UnknownPh("bad.placeholder")>>])

ReloadEnv == (Str("HOME") :> Str("~")) @@ (Str("TS_API_CLIENT_ID") :> Str("id"))

InitReload ==
    /\ app = FirstApp
    /\ env = ReloadEnv
    /\ pool = << >>
    /\ upvs = << >>
    /\ lns = << >>
    /\ tr = [Name |-> TransportName, state |-> "new", node |-> 0]
    /\ pc = [p \in Procs |-> "idle"]
    /\ loc = [p \in Procs |-> NoLoc]
    /\ ret = NoRet
    /\ acq = [n \in Names |-> 0]
    /\ rel = [n \in Names |-> 0]
    /\ nacq = 0
    /\ mux = NewMux
    /\ auth = NewAuth
    /\ rin = "none"
    /\ rout = "none"

\* A configuration load: ctx.App("tailscale") in getNode now returns the App
\* of the new configuration.  No getNode call is in flight.
Reload ==
    /\ \A p \in Procs : pc[p] \notin {"construct", "wait"}
    /\ app = FirstApp
    /\ app' = SecondApp
    /\ ret' = NoRet
    /\ UNCHANGED <<auth, mux, env, pool, upvs, lns, tr, pc, loc, acq, rel, nacq, rin, rout>>

NextReload == Next \/ Reload

SpecReload == InitReload /\ [][NextReload]_vars

\* ------------------------------------------------- the three entry points
\*
\* An eighth specification: listeners are opened through getTCPListener,
\* getTLSListener and getUDPListener, with no node configured in the app.

\* getTLSListener up to getNode's critical section.
TLSListenStart(p, name) ==
    /\ Len(lns) + InFlightListens < MaxListeners
    /\ LoadOrNewLocked(p, name, "listenTLS")
    /\ UNCHANGED <<auth, mux, app, env, lns, tr, acq, rel, rin, rout>>

\* getUDPListener up to getNode's critical section.
UDPListenStart(p, name) ==
    /\ Len(lns) + InFlightListens < MaxListeners
    /\ LoadOrNewLocked(p, name, "listenUDP")
    /\ UNCHANGED <<auth, mux, app, env, lns, tr, acq, rel, rin, rout>>

\* getTLSListener after getNode: s.Listen, then tls.NewListener around the
\* tsnetServerListener; the Close of the TLS listener is the Close of the
\* listener inside it.
TLSListen(p) ==
    /\ pc[p] = "got"
    /\ loc[p].op = "listenTLS"
    /\ \E r \in {"ok", "err"} :
         LET u == loc[p].u
             res == IF upvs[u].closed THEN "err" ELSE r
         IN  /\ lns' = IF res = "ok"
                       THEN Append(lns, [name |-> upvs[u].cfg.Hostname, node |-> u,
                                         host |-> loc[p].key, open |-> TRUE,
                                         released |-> FALSE, kind |-> "tls"])
                       ELSE lns
             /\ ret' = [NoRet EXCEPT !.op = "listenTLS", !.key = loc[p].key,
                                     !.owner = loc[p].key, !.res = res, !.u = u,
                                     !.l = IF res = "ok" THEN Len(lns) + 1 ELSE 0]
    /\ pc' = [pc EXCEPT ![p] = "idle"]
    /\ loc' = [loc EXCEPT ![p] = NoLoc]
    /\ UNCHANGED <<auth, mux, app, env, pool, upvs, tr, acq, rel, nacq, rin, rout>>

\* getUDPListener after getNode: s.Up, then s.Server.ListenPacket, whose
\* packet connection is returned as it is; r is the step that fails, if one
\* does.
UDPListen(p) ==
    /\ pc[p] = "got"
    /\ loc[p].op = "listenUDP"
    /\ \E r \in {"ok", "Up failed", "ListenPacket failed"} :
         LET u == loc[p].u
             res == IF upvs[u].closed \/ r # "ok" THEN "err" ELSE "ok"
         IN  /\ lns' = IF res = "ok"
                       THEN Append(lns, [name |-> Empty, node |-> u,
                                         host |-> loc[p].key, open |-> TRUE,
                                         released |-> FALSE, kind |-> "udp"])
                       ELSE lns
             /\ ret' = [NoRet EXCEPT !.op = "listenUDP", !.key = loc[p].key,
                                     !.owner = loc[p].key, !.res = res, !.u = u,
                                     !.l = IF res = "ok" THEN Len(lns) + 1 ELSE 0]
    /\ pc' = [pc EXCEPT ![p] = "idle"]
    /\ loc' = [loc EXCEPT ![p] = NoLoc]
    /\ UNCHANGED <<auth, mux, app, env, pool, upvs, tr, acq, rel, nacq, rin, rout>>

\* Close of the packet connection that getUDPListener returned: the
\* connection of tsnet is closed, and nothing else happens.
PacketConnClose(p, l) ==
    /\ pc[p] = "idle"
    /\ l \in 1..Len(lns)
    /\ lns[l].kind = "udp"
    /\ lns[l].open
    /\ lns' = [lns EXCEPT ![l].open = FALSE, ![l].released = TRUE]
    /\ ret' = [NoRet EXCEPT !.op = "close", !.key = lns[l].name, !.owner = lns[l].host,
                            !.res = "ok", !.l = l]
    /\ rel' = [rel EXCEPT ![lns[l].host] = @ + 1]
    /\ UNCHANGED <<auth, mux, app, env, pool, upvs, tr, pc, loc, acq, nacq, rin, rout>>

InitEntry ==
    /\ app = BaseApp
    /\ env = MainEnv
    /\ pool = << >>
    /\ upvs = << >>
    /\ lns = << >>
    /\ tr = [Name |-> TransportName, state |-> "new", node |-> 0]
    /\ pc = [p \in Procs |-> "idle"]
    /\ loc = [p \in Procs |-> NoLoc]
    /\ ret = NoRet
    /\ acq = [n \in Names |-> 0]
    /\ rel = [n \in Names |-> 0]
    /\ nacq = 0
    /\ mux = NewMux
    /\ auth = NewAuth
    /\ rin = "none"
    /\ rout = "none"

NextEntry ==
    \E p \in Procs :
        \/ \E n \in Names : ListenStart(p, n) \/ TLSListenStart(p, n) \/ UDPListenStart(p, n)
        \/ Construct(p)
        \/ Wait(p)
        \/ Listen(p)
        \/ TLSListen(p)
        \/ UDPListen(p)
        \/ \E l \in 1..MaxListeners :
              CloseFails(p, l) \/ CloseReleases(p, l) \/ PacketConnClose(p, l)
        \/ Destruct(p)

SpecEntry == InitEntry /\ [][NextEntry]_vars

\* ------------------------------------------------- the resolvers on their own
\*
\* A second specification: app and env are drawn from the configurations
\* below, rin is the node name, and every step calls one resolver (or the
\* whole constructor) and leaves its result in rout.

Fields == {"AuthKey", "ControlURL", "Hostname", "StateDir"}

\* The values a node-level and an app-level field are given: unset, a
\* literal, a placeholder of the environment, a placeholder of an unknown
\* namespace and, for the auth key, an OAuth client secret.
NodeTemplates(F) ==
    {<< >>, <<Lit("nv")>>, <<EnvPh("MYKEY")>>, <<UnknownPh("bad.placeholder")>>}
    \cup (IF F = "AuthKey" THEN {<<Lit(OAuthPrefix), Lit("ns")>>} ELSE {})
    \cup (IF F = "StateDir" THEN {<<Lit("nv"), Lit("/")>>} ELSE {})

AppTemplates(F) ==
    IF F = "Hostname" THEN {<< >>}
    ELSE {<< >>, <<Lit("dv")>>, <<Lit("d"), EnvPh("MYKEY")>>, <<UnknownPh("bad.placeholder")>>}
         \cup (IF F = "AuthKey" THEN {<<Lit(OAuthPrefix), Lit("ds")>>} ELSE {})
         \cup (IF F = "StateDir" THEN {<<Lit("dv"), Lit("/")>>} ELSE {})

\* App.DefaultAuthKey, App.ControlURL and App.StateDir are the app-level
\* counterparts of the node's fields; the hostname has none.
AppField(F) == IF F = "AuthKey" THEN "DefaultAuthKey" ELSE F

EmptyApp == [BaseApp EXCEPT !.DefaultAuthKey = << >>]

\* An App that was not provisioned: it has no logger.
Unprovisioned(a) == [a EXCEPT !.logger = FALSE]

MkApp(F, hasNode, nt, at) ==
    LET a == IF F = "Hostname" THEN EmptyApp ELSE [EmptyApp EXCEPT ![AppField(F)] = at]
    IN  IF hasNode THEN WithNode(a, Str("a"), [DefaultNode EXCEPT ![F] = nt]) ELSE a

ResolveApps ==
    UNION { { MkApp(F, h, nt, at) : h \in BOOLEAN, nt \in NodeTemplates(F), at \in AppTemplates(F) }
            : F \in Fields }

\* Each of these variables is set or unset.
EnvVars == {Str("TS_AUTHKEY"), <<"TS_AUTHKEY_", "A">>, Str("MYKEY"), Str("TS_API_CLIENT_ID")}
EnvValue(k) == <<"val-">> \o k
ResolveEnvs == { [k \in S |-> EnvValue(k)] : S \in SUBSET EnvVars }

\* The app-level flags (a bool, false when not configured) and the
\* node-level flags (an opt.Bool: unset, true or false).
FlagValues == {"unset", "true", "false"}

MkFlagApp(ae, aw, hasNode, ne, nw) ==
    LET a == [EmptyApp EXCEPT !.Ephemeral = ae, !.WebUI = aw]
    IN  IF hasNode
        THEN WithNode(a, Str("a"), [DefaultNode EXCEPT !.Ephemeral = ne, !.WebUI = nw])
        ELSE a

FlagApps ==
    { MkFlagApp(ae, aw, h, ne, nw) :
        ae \in BOOLEAN, aw \in BOOLEAN, h \in BOOLEAN, ne \in FlagValues, nw \in FlagValues }

\* Apps whose node a has an OAuth client secret for auth key, with and
\* without tags at app level and at node level.
TagApps ==
    { [WithNode(EmptyApp, Str("a"),
                [DefaultNode EXCEPT !.AuthKey = <<Lit(OAuthPrefix), Lit("ns")>>, !.Tags = nt])
         EXCEPT !.Tags = at] :
        at \in {<< >>, <<"tag:a">>}, nt \in {<< >>, <<"tag:a">>, <<"tag:a", "tag:b">>} }

NoOut == [fn |-> "none", r |-> Ok(Empty)]

InitResolve ==
    /\ app \in ResolveApps \cup FlagApps \cup TagApps
    /\ env \in ResolveEnvs
    /\ rin \in Names
    /\ rout = NoOut
    /\ pool = << >>
    /\ upvs = << >>
    /\ lns = << >>
    /\ tr = [Name |-> TransportName, state |-> "new", node |-> 0]
    /\ pc = [p \in Procs |-> "idle"]
    /\ loc = [p \in Procs |-> NoLoc]
    /\ ret = NoRet
    /\ acq = [n \in Names |-> 0]
    /\ rel = [n \in Names |-> 0]
    /\ nacq = 0
    /\ mux = NewMux
    /\ auth = NewAuth

CallGetAuthKey ==
    /\ \E ext \in Exts : rout' = [fn |-> "getAuthKey", r |-> getAuthKey(rin, app, env, ext)]
    /\ UNCHANGED <<auth, mux, app, env, pool, upvs, lns, tr, pc, loc, ret, acq, rel, nacq, rin>>

CallGetControlURL ==
    /\ rout' = [fn |-> "getControlURL", r |-> getControlURL(rin, app, env)]
    /\ UNCHANGED <<auth, mux, app, env, pool, upvs, lns, tr, pc, loc, ret, acq, rel, nacq, rin>>

CallGetHostname ==
    /\ rout' = [fn |-> "getHostname", r |-> getHostname(rin, app, env)]
    /\ UNCHANGED <<auth, mux, app, env, pool, upvs, lns, tr, pc, loc, ret, acq, rel, nacq, rin>>

\* getHostname with a nil *App.
CallGetHostnameNilApp ==
    /\ rout' = [fn |-> "getHostnameNilApp", r |-> getHostname(rin, NilApp, env)]
    /\ UNCHANGED <<auth, mux, app, env, pool, upvs, lns, tr, pc, loc, ret, acq, rel, nacq, rin>>

CallGetStateDir ==
    /\ \E ext \in Exts : rout' = [fn |-> "getStateDir", r |-> getStateDir(rin, app, env, ext)]
    /\ UNCHANGED <<auth, mux, app, env, pool, upvs, lns, tr, pc, loc, ret, acq, rel, nacq, rin>>

CallNewNode ==
    /\ \E ext \in Exts : rout' = [fn |-> "NewNode", r |-> NewNode(rin, app, env, ext)]
    /\ UNCHANGED <<auth, mux, app, env, pool, upvs, lns, tr, pc, loc, ret, acq, rel, nacq, rin>>

CallGetEphemeral ==
    /\ rout' = [fn |-> "getEphemeral", r |-> [val |-> getEphemeral(rin, app), err |-> "nil"]]
    /\ UNCHANGED <<auth, mux, app, env, pool, upvs, lns, tr, pc, loc, ret, acq, rel, nacq, rin>>

CallGetWebUI ==
    /\ rout' = [fn |-> "getWebUI", r |-> [val |-> getWebUI(rin, app), err |-> "nil"]]
    /\ UNCHANGED <<auth, mux, app, env, pool, upvs, lns, tr, pc, loc, ret, acq, rel, nacq, rin>>

NextResolve ==
    \/ CallGetAuthKey
    \/ CallGetControlURL
    \/ CallGetHostname
    \/ CallGetHostnameNilApp
    \/ CallGetStateDir
    \/ CallNewNode
    \/ CallGetEphemeral
    \/ CallGetWebUI

SpecResolve == InitResolve /\ [][NextResolve]_vars

\* ------------------------------------------------- the Caddyfile directives
\*
\* A third specification: rin is the body of a tailscale block as the
\* dispenser hands it out, one record for a directive with its arguments or
\* for a node block with the directives in it; one step parses it, another
\* loads the JSON that came out of it.

\* How many app-level directives and how many directives in a node block.
MaxAppDirs == 2
MaxNodeDirs == 1

\* strconv.ParseBool.
TrueLits == {"1", "t", "T", "TRUE", "true", "True"}
FalseLits == {"0", "f", "F", "FALSE", "false", "False"}
ParseBool(tok) ==
    IF tok \in TrueLits THEN [ok |-> TRUE, v |-> TRUE]
    ELSE IF tok \in FalseLits THEN [ok |-> TRUE, v |-> FALSE]
    ELSE [ok |-> FALSE, v |-> FALSE]

\* opt.NewBool.
NewBool(v) == IF v THEN "true" ELSE "false"

FlagField(name) == IF name = "ephemeral" THEN "Ephemeral" ELSE "WebUI"

Dir(name, args) == [kind |-> "dir", name |-> name, args |-> args, body |-> << >>]
NodeBlock(name, body) == [kind |-> "node", name |-> name, args |-> << >>, body |-> body]

\* parseNodeConfig that stores a flag only when it is true.
NodeDirective_DropsFalse(node, d) ==
    IF d.name \in {"ephemeral", "webui"}
    THEN IF d.args # << >>
         THEN IF ~ParseBool(d.args[1]).ok
              THEN [err |-> "invalid syntax", node |-> node]
              ELSE [err |-> "nil",
                    node |-> IF ParseBool(d.args[1]).v
                             THEN [node EXCEPT ![FlagField(d.name)] = "true"]
                             ELSE node]
         ELSE [err |-> "nil", node |-> [node EXCEPT ![FlagField(d.name)] = NewBool(TRUE)]]
    ELSE [err |-> "unrecognized subdirective", node |-> node]

\* One turn of parseNodeConfig's loop: the "ephemeral" and "webui" cases
\* and the default case.
NodeDirective(node, d) ==
    IF d.name \in {"ephemeral", "webui"}
    THEN IF d.args # << >>
         THEN IF ~ParseBool(d.args[1]).ok
              THEN [err |-> "invalid syntax", node |-> node]
              ELSE [err |-> "nil",
                    node |-> [node EXCEPT ![FlagField(d.name)] = NewBool(ParseBool(d.args[1]).v)]]
         ELSE [err |-> "nil", node |-> [node EXCEPT ![FlagField(d.name)] = NewBool(TRUE)]]
    ELSE [err |-> "unrecognized subdirective", node |-> node]

RECURSIVE parseNodeConfig(_, _)
parseNodeConfig(body, node) ==
    IF body = << >> THEN [err |-> "nil", node |-> node]
    ELSE LET r == NodeDirective(node, Head(body))
         IN  IF r.err # "nil" THEN r ELSE parseNodeConfig(Tail(body), r.node)

\* One turn of parseAppConfig's loop: the "ephemeral" and "webui" cases
\* and the default case, a node block.
AppDirective(a, d) ==
    IF d.kind = "dir"
    THEN IF d.args # << >>
         THEN IF ~ParseBool(d.args[1]).ok
              THEN [err |-> "invalid syntax", app |-> a]
              ELSE [err |-> "nil", app |-> [a EXCEPT ![FlagField(d.name)] = ParseBool(d.args[1]).v]]
         ELSE [err |-> "nil", app |-> [a EXCEPT ![FlagField(d.name)] = TRUE]]
    ELSE LET n == parseNodeConfig(d.body, DefaultNode)
         IN  IF n.err # "nil" THEN [err |-> n.err, app |-> a]
             ELSE [err |-> "nil", app |-> WithNode(a, d.name, n.node)]

RECURSIVE ParseLoop(_, _)
ParseLoop(items, a) ==
    IF items = << >> THEN [err |-> "nil", app |-> a]
    ELSE LET r == AppDirective(a, Head(items))
         IN  IF r.err # "nil" THEN r ELSE ParseLoop(Tail(items), r.app)

\* caddyconfig.JSON of a Node and of an App: omitempty leaves out a false
\* app-level flag, an unset node-level flag and an empty node map.  (The
\* directives above set no other field.)
NodeJSON(n) ==
    [k \in {key \in {"ephemeral", "webui"} : n[FlagField(key)] # "unset"} |->
        n[FlagField(k)] = "true"]

AppJSON(a) ==
    [k \in {key \in {"ephemeral", "webui"} : a[FlagField(key)]}
           \cup (IF DOMAIN a.Nodes # {} THEN {"nodes"} ELSE {}) |->
        IF k = "nodes" THEN [n \in DOMAIN a.Nodes |-> NodeJSON(a.Nodes[n])] ELSE TRUE]

NoJSON == [nil |-> TRUE]

parseAppConfig(items) ==
    LET r == ParseLoop(items, Unprovisioned(EmptyApp))
    IN  IF r.err # "nil" THEN [err |-> r.err, val |-> NoJSON]
        ELSE [err |-> "nil", val |-> AppJSON(r.app)]

\* json.Unmarshal into an App.
UnmarshalNode(j) ==
    [DefaultNode EXCEPT
        !.Ephemeral = IF "ephemeral" \in DOMAIN j THEN NewBool(j["ephemeral"]) ELSE "unset",
        !.WebUI = IF "webui" \in DOMAIN j THEN NewBool(j["webui"]) ELSE "unset"]

Unmarshal(j) ==
    [Unprovisioned(EmptyApp) EXCEPT
        !.Ephemeral = ("ephemeral" \in DOMAIN j /\ j["ephemeral"]),
        !.WebUI = ("webui" \in DOMAIN j /\ j["webui"]),
        !.Nodes = IF "nodes" \in DOMAIN j
                  THEN [n \in DOMAIN j["nodes"] |-> UnmarshalNode(j["nodes"][n])]
                  ELSE << >>]

\* The arguments of a flag directive: none, the four boolean literals of
\* the grammar, one that is no boolean.
FlagArgs == {<< >>, <<"true">>, <<"false">>, <<"1">>, <<"0">>, <<"yes">>}
AppDirs == { Dir(n, a) : n \in {"ephemeral", "webui"}, a \in FlagArgs }
NodeDirs == AppDirs \cup {Dir("bogus", << >>)}
SeqsUpTo(S, n) == UNION { [1..k -> S] : k \in 0..n }

\* App-level directives and then, or not, a block for node a.
Caddyfiles ==
    { ds \o nb : ds \in SeqsUpTo(AppDirs, MaxAppDirs),
                 nb \in {<< >>} \cup { <<NodeBlock(Str("a"), b)>> : b \in SeqsUpTo(NodeDirs, MaxNodeDirs) } }

InitParse ==
    /\ rin \in Caddyfiles
    /\ rout = NoOut
    /\ app = Unprovisioned(EmptyApp)
    /\ env = MainEnv
    /\ pool = << >>
    /\ upvs = << >>
    /\ lns = << >>
    /\ tr = [Name |-> TransportName, state |-> "new", node |-> 0]
    /\ pc = [p \in Procs |-> "idle"]
    /\ loc = [p \in Procs |-> NoLoc]
    /\ ret = NoRet
    /\ acq = [n \in Names |-> 0]
    /\ rel = [n \in Names |-> 0]
    /\ nacq = 0
    /\ mux = NewMux
    /\ auth = NewAuth

CallParseAppConfig ==
    /\ rout.fn = "none"
    /\ rout' = [fn |-> "parseAppConfig", r |-> parseAppConfig(rin)]
    /\ UNCHANGED <<auth, mux, app, env, pool, upvs, lns, tr, pc, loc, ret, acq, rel, nacq, rin>>

\* The parsed configuration is loaded: the JSON is decoded into the App.
LoadConfig ==
    /\ rout.fn = "parseAppConfig"
    /\ rout.r.err = "nil"
    /\ app' = Unmarshal(rout.r.val)
    /\ rout' = [fn |-> "loaded", r |-> rout.r]
    /\ UNCHANGED <<auth, mux, env, pool, upvs, lns, tr, pc, loc, ret, acq, rel, nacq, rin>>

NextParse ==
    \/ CallParseAppConfig
    \/ LoadConfig

SpecParse == InitParse /\ [][NextParse]_vars

\* -------------------------------------------------- the tscert transport
\*
\* A fourth specification: the registry holds nodes that are up, rin gives
\* each node's certificate domains, and the goroutines send requests through
\* the tsnetMuxTransport.  Host names are sequences of labels.

CertDomain == {<<"a", "ts">>, <<"b", "ts">>, <<"*", "ts">>}
DomainSets == {{}, {<<"a", "ts">>}, {<<"b", "ts">>}, {<<"*", "ts">>}, {<<"a", "ts">>, <<"b", "ts">>}}

\* clientHello.ServerName of a request; NoHello when the request's context
\* carries no ClientHelloInfo.
NoHello == << >>
ServerNames == {<<"a", "ts">>, <<"b", "ts">>, <<"c", "ts">>, NoHello}

\* certmagic.MatchWildcard: the names are equal, or the wildcard is the
\* subject with its labels, from the left up to some label, replaced by "*".
Starred(subject, i) == [k \in 1..Len(subject) |-> IF k <= i THEN "*" ELSE subject[k]]
MatchWildcard(subject, wildcard) ==
    \/ subject = wildcard
    \/ /\ \E k \in 1..Len(wildcard) : wildcard[k] = "*"
       /\ \E i \in 1..Len(subject) : Starred(subject, i) = wildcard

\* The registered nodes that nodes.Range can stop at for a server name:
\* those with a certificate domain that matches it.
Matching(S) ==
    {u \in DOMAIN upvs :
        /\ upvs[u].key \in DOMAIN pool /\ pool[upvs[u].key] = u
        /\ upvs[u].state = "ready"
        /\ \E d \in rin[upvs[u].key] : MatchWildcard(S, d)}

\* A node that getNode created and a listener brought up.
UpNode(N) ==
    [NewUpv(N) EXCEPT !.state = "ready",
                      !.cfg = NewNode(N, BaseApp, MainEnv,
                                      [createKey |-> "ok", configDir |-> "ok", mkdir |-> "ok"]).cfg]

Registries == {<< >>, <<UpNode(Str("a"))>>, <<UpNode(Str("b"))>>,
               <<UpNode(Str("a")), UpNode(Str("b"))>>}

InitRoute ==
    /\ upvs \in Registries
    /\ pool = [N \in {upvs[u].key : u \in DOMAIN upvs} |->
                  CHOOSE u \in DOMAIN upvs : upvs[u].key = N]
    /\ rin \in [Names -> DomainSets]
    /\ rout = NoOut
    /\ app = BaseApp
    /\ env = MainEnv
    /\ lns = << >>
    /\ tr = [Name |-> TransportName, state |-> "new", node |-> 0]
    /\ pc = [p \in Procs |-> "idle"]
    /\ loc = [p \in Procs |-> NoLoc]
    /\ ret = NoRet
    /\ acq = [n \in Names |-> 0]
    /\ rel = [n \in Names |-> 0]
    /\ nacq = 0
    /\ mux = NewMux
    /\ auth = NewAuth

Dispatched(S, res, u, inst) ==
    [op |-> "roundtrip", sni |-> S, res |-> res, u |-> u, inst |-> inst]

\* RoundTrip, lines 465-485: with a ClientHello, nodes.Range stops at the
\* first node it visits that has a matching domain, and rt is that node's
\* local client if LocalClient returns one; the map is visited in no fixed
\* order.  Range holds the pool's read lock, so this is one step; the
\* request is sent after Range has returned.
RoundTripStart(p, S) ==
    /\ pc[p] = "idle"
    /\ \/ /\ S # NoHello
          /\ \E u \in Matching(S) :
               \/ /\ pc' = [pc EXCEPT ![p] = "send"]
                  /\ loc' = [loc EXCEPT ![p] = [NoLoc EXCEPT !.op = "roundtrip", !.key = S,
                                                             !.u = u]]
                  /\ ret' = NoRet
               \/ /\ pc' = [pc EXCEPT ![p] = "once"]
                  /\ loc' = [loc EXCEPT ![p] = [NoLoc EXCEPT !.op = "roundtrip", !.key = S]]
                  /\ ret' = NoRet
       \/ /\ S = NoHello \/ Matching(S) = {}
          /\ pc' = [pc EXCEPT ![p] = "once"]
          /\ loc' = [loc EXCEPT ![p] = [NoLoc EXCEPT !.op = "roundtrip", !.key = S]]
          /\ ret' = NoRet
    /\ UNCHANGED <<auth, mux, app, env, pool, upvs, lns, tr, acq, rel, nacq, rin, rout>>

\* defaultTransportOnce.Do that lets every caller that finds no transport
\* construct one.
OnceDo_Unguarded(p) ==
    /\ pc[p] = "once"
    /\ pc' = [pc EXCEPT ![p] = IF mux.defaultTransport # 0 THEN "use" ELSE "make"]
    /\ ret' = NoRet
    /\ UNCHANGED <<auth, mux, app, env, pool, upvs, lns, tr, loc, acq, rel, nacq, rin, rout>>

\* t.defaultTransportOnce.Do, line 488: the first caller runs the function,
\* a caller that arrives while it runs waits for it, a later one returns.
OnceDo(p) ==
    /\ pc[p] = "once"
    /\ mux.once # "running"
    /\ IF mux.once = "new"
       THEN /\ mux' = [mux EXCEPT !.once = "running"]
            /\ pc' = [pc EXCEPT ![p] = "make"]
       ELSE /\ mux' = mux
            /\ pc' = [pc EXCEPT ![p] = "use"]
    /\ ret' = NoRet
    /\ UNCHANGED <<auth, app, env, pool, upvs, lns, tr, loc, acq, rel, nacq, rin, rout>>

\* The function given to the Once, lines 489-491.
MakeDefault(p) ==
    /\ pc[p] = "make"
    /\ mux' = [defaultTransport |-> mux.made + 1, once |-> "done", made |-> mux.made + 1]
    /\ pc' = [pc EXCEPT ![p] = "use"]
    /\ ret' = NoRet
    /\ UNCHANGED <<auth, app, env, pool, upvs, lns, tr, loc, acq, rel, nacq, rin, rout>>

\* Line 495 with rt the local client of a node: the request goes to the
\* LocalAPI of the node that Range stopped at.
SendToNode(p) ==
    /\ pc[p] = "send"
    /\ ret' = Dispatched(loc[p].key, "node", loc[p].u, 0)
    /\ pc' = [pc EXCEPT ![p] = "idle"]
    /\ loc' = [loc EXCEPT ![p] = NoLoc]
    /\ UNCHANGED <<auth, mux, app, env, pool, upvs, lns, tr, acq, rel, nacq, rin, rout>>

\* Lines 493-495: the request goes out through t.defaultTransport.
UseDefault(p) ==
    /\ pc[p] = "use"
    /\ ret' = Dispatched(loc[p].key, "default", 0, mux.defaultTransport)
    /\ pc' = [pc EXCEPT ![p] = "idle"]
    /\ loc' = [loc EXCEPT ![p] = NoLoc]
    /\ UNCHANGED <<auth, mux, app, env, pool, upvs, lns, tr, acq, rel, nacq, rin, rout>>

NextRoute ==
    \E p \in Procs :
        \/ \E S \in ServerNames : RoundTripStart(p, S)
        \/ OnceDo(p)
        \/ MakeDefault(p)
        \/ SendToNode(p)
        \/ UseDefault(p)

SpecRoute == InitRoute /\ [][NextRoute]_vars

\* ------------------------------------------------ the router and releases
\*
\* A ninth specification: nodes a and b are registered with one open
\* listener each; requests are routed while the listeners are closed.

ListenerOn(u) ==
    [name |-> upvs[u].cfg.Hostname, node |-> u, host |-> upvs[u].key, open |-> TRUE,
     released |-> FALSE, kind |-> "tcp"]

InitRace ==
    /\ upvs = <<UpNode(Str("a")), UpNode(Str("b"))>>
    /\ pool = [N \in Names |-> CHOOSE u \in DOMAIN upvs : upvs[u].key = N]
    /\ lns = <<ListenerOn(1), ListenerOn(2)>>
    /\ rin \in [Names -> DomainSets]
    /\ rout = NoOut
    /\ app = BaseApp
    /\ env = MainEnv
    /\ tr = [Name |-> TransportName, state |-> "new", node |-> 0]
    /\ pc = [p \in Procs |-> "idle"]
    /\ loc = [p \in Procs |-> NoLoc]
    /\ ret = NoRet
    /\ acq = [n \in Names |-> 1]
    /\ rel = [n \in Names |-> 0]
    /\ nacq = 0
    /\ mux = NewMux
    /\ auth = NewAuth

NextRace ==
    \/ NextRoute
    \/ \E p \in Procs :
          \/ \E l \in 1..MaxListeners : CloseReleases(p, l)
          \/ Destruct(p)

SpecRace == InitRace /\ [][NextRace]_vars

\* ------------------------------------------------------ the app's lifecycle
\*
\* A fifth specification: the App is provisioned, started and stopped by
\* the framework, and one goroutine opens and closes listeners and
\* provisions and cleans up the transport.  ctx.App provisions the App
\* before getNode reads it, so nothing is acquired before AppProvision.

AppConfigs ==
    MainApps \cup
    { WithNode(WithNode(BaseApp, Str("a"), DefaultNode), Str("b"), DefaultNode) }

InitApp ==
    /\ app \in {Unprovisioned(a) : a \in AppConfigs}
    /\ env = MainEnv
    /\ pool = << >>
    /\ upvs = << >>
    /\ lns = << >>
    /\ tr = [Name |-> TransportName, state |-> "new", node |-> 0]
    /\ pc = [p \in Procs |-> "idle"]
    /\ loc = [p \in Procs |-> NoLoc]
    /\ ret = NoRet
    /\ acq = [n \in Names |-> 0]
    /\ rel = [n \in Names |-> 0]
    /\ nacq = 0
    /\ mux = NewMux
    /\ auth = NewAuth
    /\ rin = "none"
    /\ rout = "none"

\* App.Provision: the logger is set.
AppProvision ==
    /\ ~app.logger
    /\ app' = [app EXCEPT !.logger = TRUE]
    /\ ret' = [NoRet EXCEPT !.op = "appProvision", !.res = "ok"]
    /\ UNCHANGED <<auth, mux, env, pool, upvs, lns, tr, pc, loc, acq, rel, nacq, rin, rout>>

\* App.Start that brings up every configured node.
AppStart_StartsNodes ==
    /\ app.logger
    /\ ret' = [NoRet EXCEPT !.op = "appStart", !.res = "ok"]
    /\ \E N \in Names :
         IF HasNode(app, N) /\ N \notin DOMAIN pool /\ Len(upvs) < MaxNodes
         THEN /\ upvs' = Append(upvs, [NewUpv(N) EXCEPT !.state = "ready"])
              /\ pool' = Put(pool, N, Len(upvs) + 1)
         ELSE UNCHANGED <<pool, upvs>>
    /\ UNCHANGED <<auth, mux, app, env, lns, tr, pc, loc, acq, rel, nacq, rin, rout>>

\* App.Start: returns nil.
AppStart ==
    /\ app.logger
    /\ ret' = [NoRet EXCEPT !.op = "appStart", !.res = "ok"]
    /\ UNCHANGED <<auth, mux, app, env, pool, upvs, lns, tr, pc, loc, acq, rel, nacq, rin, rout>>

\* App.Stop: returns nil.
AppStop ==
    /\ app.logger
    /\ ret' = [NoRet EXCEPT !.op = "appStop", !.res = "ok"]
    /\ UNCHANGED <<auth, mux, app, env, pool, upvs, lns, tr, pc, loc, acq, rel, nacq, rin, rout>>

NextApp ==
    \/ AppProvision
    \/ AppStart
    \/ AppStop
    \/ /\ app.logger
       /\ \/ \E name \in Names : ListenStart("p1", name)
          \/ ProvisionStart("p1")
          \/ Construct("p1")
          \/ Wait("p1")
          \/ Listen("p1")
          \/ \E l \in 1..MaxListeners : CloseReleases("p1", l)
          \/ Destruct("p1")
          \/ Cleanup("p1")

SpecApp == InitApp /\ [][NextApp]_vars

\* ------------------------------------------------ the authentication provider
\*
\* A sixth specification: rin is the list of the listeners of the HTTP
\* server, and every step authenticates one request that came in through
\* one of them.

\* How deep a listener is wrapped and how many listeners the server has.
MaxWrap == 2
MaxServerListeners == 2

\* A listener: what is at the bottom (a tsnet listener of a node, or a
\* listener that is no struct) and the wrappers around it, outermost first:
\* "unwrap" has an Unwrap method, "embed" has a field called Listener.
WrapKinds == {"unwrap", "embed"}
TsnetLn(N, wraps) == [base |-> "tsnet", node |-> N, wraps |-> wraps]
OtherLn(wraps) == [base |-> "other", node |-> << >>, wraps |-> wraps]
ServerListeners ==
    { TsnetLn(N, w) : N \in Names, w \in SeqsUpTo(WrapKinds, MaxWrap) }
    \cup { OtherLn(w) : w \in SeqsUpTo(WrapKinds, MaxWrap) }

\* findTsnetListener: the wrappers are taken off one by one, through Unwrap
\* or through the Listener field, until a tsnetListener is found or nothing
\* is left to take off.
RECURSIVE findTsnetListener(_)
findTsnetListener(ln) ==
    IF ln.wraps = << >>
    THEN [ok |-> ln.base = "tsnet", node |-> ln.node]
    ELSE findTsnetListener([ln EXCEPT !.wraps = Tail(ln.wraps)])

LocalClientOf(N) == <<"node">> \o N
Tailscaled == <<"tailscaled">>

\* The loop of Auth.client over server.Listeners(): every
\* node-backed listener sets ta.localclient; failing holds the nodes whose
\* LocalClient returns an error.
RECURSIVE ClientLoop(_, _, _)
ClientLoop(listeners, cur, failing) ==
    IF listeners = << >> THEN [client |-> cur, err |-> "nil"]
    ELSE LET t == findTsnetListener(Head(listeners))
         IN  IF t.ok
             THEN IF t.node \in failing
                  THEN [client |-> <<"nil">>, err |-> "LocalClient failed"]
                  ELSE ClientLoop(Tail(listeners), LocalClientOf(t.node), failing)
             ELSE ClientLoop(Tail(listeners), cur, failing)

\* Auth.client on the Auth value ta.
client(ta, listeners, failing) ==
    IF ta.localclient # <<"nil">> THEN [client |-> ta.localclient, err |-> "nil"]
    ELSE LET r == ClientLoop(listeners, ta.localclient, failing)
         IN  IF r.err # "nil" THEN r
             ELSE IF r.client = <<"nil">> THEN [client |-> Tailscaled, err |-> "nil"]
             ELSE r

InitAuth ==
    /\ rin \in UNION { [1..k -> ServerListeners] : k \in 1..MaxServerListeners }
    /\ rout = NoOut
    /\ app = BaseApp
    /\ env = MainEnv
    /\ pool = << >>
    /\ upvs = << >>
    /\ lns = << >>
    /\ tr = [Name |-> TransportName, state |-> "new", node |-> 0]
    /\ pc = [p \in Procs |-> "idle"]
    /\ loc = [p \in Procs |-> NoLoc]
    /\ ret = NoRet
    /\ acq = [n \in Names |-> 0]
    /\ rel = [n \in Names |-> 0]
    /\ nacq = 0
    /\ mux = NewMux
    /\ auth = NewAuth

\* Auth.Authenticate for a request that came in through listener via, up to
\* the WhoIs call: the receiver is a copy of the module, so what client
\* stores in it is gone when the call returns.
Authenticate(via) ==
    /\ \E failing \in SUBSET Names :
         LET ta == auth
             c == client(ta, rin, failing)
         IN  ret' = [op |-> "authenticate", via |-> via,
                     res |-> IF c.err = "nil" THEN "ok" ELSE "err",
                     whois |-> c.client]
    /\ UNCHANGED <<auth, mux, app, env, pool, upvs, lns, tr, pc, loc, acq, rel, nacq, rin, rout>>

NextAuth == \E via \in DOMAIN rin : Authenticate(via)

SpecAuth == InitAuth /\ [][NextAuth]_vars

\* ------------------------------------------------------------------ claims

Quiescent == \A p \in Procs : pc[p] = "idle"

\* The listeners opened on node N, and those of them whose Close went through.
OpenedOn(N) == {l \in DOMAIN lns : lns[l].host = N}
ClosedOn(N) == {l \in OpenedOn(N) : lns[l].released}

\* C1: at every quiescent point, for every node name N, the pool's reference
\* count of N is the number of getNode(N) calls that returned a node minus
\* the number of Close/Cleanup calls of N's users that returned nil; N is in
\* the pool exactly when that number is positive, and it is never negative.
\* Stated for the listener entry points (the transport not yet provisioned).
C1_RefcountAccounting ==
    (Quiescent /\ tr.state = "new") =>
        \A N \in Names :
            /\ acq[N] - rel[N] >= 0
            /\ References(N)[1] = acq[N] - rel[N]
            /\ (References(N)[2] <=> (acq[N] - rel[N] > 0))

\* No release has been started yet: every call so far is an acquire.
OnlyAcquires ==
    /\ \A n \in Names : rel[n] = 0
    /\ tr.state # "cleaned"
    /\ \A p \in Procs : loc[p].op \notin {"close", "cleanup"}
    /\ \A l \in DOMAIN lns : ~lns[l].released

Constructing(N) == {p \in Procs : pc[p] = "construct" /\ loc[p].key = N}

\* C2: while callers only acquire, a node name has at most one constructor
\* running and at most one entry that did not fail; a caller that waits on a
\* name waits on the entry being constructed; every caller that got a node
\* got the one entry of the pool, and a caller is given an error exactly when
\* that is the outcome of the entry it joined.
C2_SingleCreation ==
    OnlyAcquires =>
        \A N \in Names :
            /\ Cardinality(Constructing(N)) <= 1
            /\ Cardinality({u \in DOMAIN upvs : upvs[u].key = N /\ upvs[u].state # "failed"}) <= 1
            /\ \A p \in Procs :
                 (pc[p] = "wait" /\ loc[p].key = N /\ upvs[loc[p].u].state = "creating") =>
                     /\ N \in DOMAIN pool /\ pool[N] = loc[p].u
                     /\ \E q \in Constructing(N) : loc[q].u = loc[p].u
            /\ \A p \in Procs :
                 (pc[p] = "got" /\ loc[p].key = N) =>
                     (N \in DOMAIN pool /\ pool[N] = loc[p].u /\ upvs[loc[p].u].state = "ready")
            /\ \A l \in OpenedOn(N) : N \in DOMAIN pool /\ pool[N] = lns[l].node
            /\ (ret.op \in {"listen", "provision"} /\ ret.key = N) =>
                 /\ ret.res = "ok" => (N \in DOMAIN pool /\ pool[N] = ret.u)
                 /\ upvs[ret.u].state = "failed" => ret.res = "err"
                 /\ upvs[ret.u].state # "creating"

C2_Witness ==
    /\ OnlyAcquires
    /\ \E p, q \in Procs :
         /\ pc[p] = "construct" /\ pc[q] = "wait"
         /\ loc[p].key = loc[q].key /\ loc[p].u = loc[q].u

\* C3: with two listeners opened on node N and nothing else using N, N is in
\* the pool after the first of them is closed and is not after the second.
C3_TwoListenersTwoCloses ==
    \A N \in Names :
        (Quiescent /\ tr.state = "new" /\ acq[N] = 2 /\ Cardinality(OpenedOn(N)) = 2) =>
            /\ Cardinality(ClosedOn(N)) = 1 => N \in DOMAIN pool
            /\ Cardinality(ClosedOn(N)) = 2 => N \notin DOMAIN pool

\* C4: when the release that took an entry's count to zero returns, the
\* entry is out of the pool, its node is shut down (closing it again reports
\* that it is closed), and a lookup of the name finds nothing unless an entry
\* was created for the name since.
C4_ZeroReleaseShutsDown ==
    (ret.op \in {"close", "cleanup"} /\ ret.zero) =>
        /\ ret.res = "ok"
        /\ upvs[ret.u].refs = 0
        /\ upvs[ret.u].state = "ready" =>
              (upvs[ret.u].closed /\ ServerClose(ret.u) = "ErrClosed")
        /\ \A n \in DOMAIN pool : pool[n] # ret.u
        /\ (\A v \in DOMAIN upvs : v > ret.u => upvs[v].key # upvs[ret.u].key) =>
              References(upvs[ret.u].key) = <<0, FALSE>>

C4_Witness ==
    /\ ret.op = "close" /\ ret.zero
    /\ upvs[ret.u].state = "ready"
    /\ References(upvs[ret.u].key) = <<0, FALSE>>

\* A step in which Close or Cleanup calls nodes.Delete with a key that is
\* not in the pool.
ReleaseOfAbsent ==
    \/ \E l \in DOMAIN lns :
         ~lns[l].released /\ lns'[l].released /\ lns[l].name \notin DOMAIN pool
    \/ tr.state # "cleaned" /\ tr'.state = "cleaned" /\ tr.Name \notin DOMAIN pool

\* C5: a release of a name that has no entry changes neither the pool nor
\* any entry and returns nil, reporting that nothing was found; no reference
\* count is ever negative.
C5_ReleaseOfAbsentIsNoOp ==
    [][ /\ ReleaseOfAbsent =>
             /\ pool' = pool /\ upvs' = upvs /\ pc' = pc
             /\ ret'.res = "ok" /\ ~ret'.found /\ ~ret'.zero
        /\ \A u \in DOMAIN upvs' : upvs'[u].refs >= 0 ]_vars

C5_Witness ==
    /\ ret.op \in {"close", "cleanup"}
    /\ ret.res = "ok" /\ ~ret.found
    /\ ret.key \notin DOMAIN pool

\* C6: a Close of a listener whose Close already went through once does not
\* decrement again and returns no error.
C6_SecondCloseIsSilent ==
    (ret.op = "close" /\ ret.again) => (ret.res = "ok" /\ ~ret.found)

\* C7: a Close whose underlying Close returned an error returns the error
\* and changes nothing: the pool, every count, the listener and the release
\* count are as before, so the listener can still be closed.
C7_FailedCloseKeepsCount ==
    [][ (ret'.op = "close" /\ ret'.res = "err") =>
            (pool' = pool /\ upvs' = upvs /\ lns' = lns /\ rel' = rel /\ pc' = pc) ]_vars

C7_Witness ==
    /\ ret.op = "close" /\ ret.res = "err" /\ ~ret.again
    /\ lns[ret.l].open
    /\ lns[ret.l].name \in DOMAIN pool

\* C8: an entry whose construction failed is never in the pool, the caller
\* that ran or joined the construction is given the error and no node, and a
\* constructor always runs on an entry of its own that is newly made.
C8_FailedCreationLeavesNothing ==
    /\ \A n \in DOMAIN pool : upvs[pool[n]].state # "failed"
    /\ (ret.op \in {"listen", "provision"} /\ ret.u # 0 /\ upvs[ret.u].state = "failed") =>
          /\ ret.res = "err" /\ ret.l = 0
          /\ (ret.key \in DOMAIN pool => pool[ret.key] # ret.u)
    /\ \A p \in Procs : pc[p] = "construct" => upvs[loc[p].u].state = "creating"
    /\ \A p \in Procs : pc[p] = "got" => upvs[loc[p].u].state = "ready"

C8_Witness ==
    \E u, v \in DOMAIN upvs :
        /\ u < v /\ upvs[u].key = upvs[v].key
        /\ upvs[u].state = "failed" /\ upvs[v].state = "ready"
        /\ upvs[v].key \in DOMAIN pool /\ pool[upvs[v].key] = v

\* The four sources of node rin's auth key, as configured.
Tier1 == IF HasNode(app, rin) THEN app.Nodes[rin].AuthKey ELSE << >>
Tier2 == app.DefaultAuthKey
Tier3 == Getenv(env, <<"TS_AUTHKEY_">> \o ToUpper(rin))
Tier4 == Getenv(env, Str("TS_AUTHKEY"))

\* The value of the first source that is set, expanded where it is a
\* configured value.
AuthKeyWinner ==
    IF Tier1 # << >> THEN ReplaceOrErr(Tier1, env)
    ELSE IF Tier2 # << >> THEN ReplaceOrErr(Tier2, env)
    ELSE IF Tier3 # Empty THEN Ok(Tier3)
    ELSE Ok(Tier4)

\* C9: the auth key of node N is the value of the first source that is set,
\* in the order node-level key, app-level default, TS_AUTHKEY_<N uppercased>,
\* TS_AUTHKEY, and is empty when none is set.  That value is what getAuthKey
\* returns, with no key requested, when it is a direct key, and what it
\* exchanges when it is an OAuth client secret.
C9_AuthKeyPriority ==
    (rout.fn = "getAuthKey" /\ AuthKeyWinner.err = "nil") =>
        IF HasOAuthPrefix(AuthKeyWinner.val)
        THEN rout.r.exchange /\ rout.r.secret = AuthKeyWinner.val
        ELSE rout.r = NoExchange(Ok(AuthKeyWinner.val))

C9_Witness ==
    /\ rout.fn = "getAuthKey"
    /\ Tier1 = << >> /\ Tier2 = << >>
    /\ Tier3 # Empty /\ Tier4 # Empty
    /\ rout.r.val = Tier3

\* The configured value of a field that wins resolution for node rin.
WinTemplate(F) ==
    IF HasNode(app, rin) /\ app.Nodes[rin][F] # << >> THEN app.Nodes[rin][F]
    ELSE IF F = "Hostname" THEN << >>
    ELSE app[AppField(F)]

ExpansionFails(F) == ReplaceOrErr(WinTemplate(F), env).err # "nil"

Resolver(F) == "get" \o F

\* C10: when the configured value of a field that wins resolution fails
\* placeholder expansion, the field's resolver returns that error and the
\* empty string, the auth key's resolver neither uses a lower source nor
\* requests a key, and the constructor returns an error and no node.
C10_ExpansionFailureAborts ==
    /\ \A F \in Fields :
         (rout.fn = Resolver(F) /\ ExpansionFails(F)) =>
             /\ rout.r.err = ReplaceOrErr(WinTemplate(F), env).err
             /\ rout.r.val = Empty
             /\ F = "AuthKey" => ~rout.r.exchange
    /\ (rout.fn = "NewNode" /\ \E F \in Fields : ExpansionFails(F)) =>
             /\ rout.r.err # "nil"
             /\ rout.r.cfg = NoCfg
             /\ rout.r.step \in Fields /\ ExpansionFails(rout.r.step)

C10_Witness ==
    /\ rout.fn = "getAuthKey"
    /\ Tier1 # << >> /\ ExpansionFails("AuthKey")
    /\ Tier3 # Empty /\ Tier4 # Empty
    /\ rout.r.err # "nil" /\ rout.r.val = Empty

\* The node-level value of a flag for node rin: unset when the node has no
\* configuration.
NodeFlag(F) == IF HasNode(app, rin) THEN app.Nodes[rin][F] ELSE "unset"

\* C11: for the ephemeral and the web UI flag, the resolved flag is the
\* node-level value when that is true or false, and the app-level value when
\* the node has no configuration or leaves the flag unset.
C11_TriStateFlags ==
    \A F \in {"Ephemeral", "WebUI"} :
        rout.fn = "get" \o F =>
            rout.r.val = (IF NodeFlag(F) = "true" THEN TRUE
                          ELSE IF NodeFlag(F) = "false" THEN FALSE
                          ELSE app[F])

C11_Witness ==
    /\ rout.fn = "getEphemeral"
    /\ NodeFlag("Ephemeral") = "false" /\ app.Ephemeral
    /\ rout.r.val = FALSE

\* What the grammar says of the file rin: the app-level directives and the
\* directives of node N's blocks, a directive's value, and whether some
\* directive cannot be parsed.
AppLevel == SelectSeq(rin, LAMBDA d : d.kind = "dir")
Blocks == SelectSeq(rin, LAMBDA d : d.kind = "node")
FlagValue(d) == IF d.args = << >> THEN TRUE ELSE d.args[1] \in {"true", "1"}
BadDirective(d) ==
    \/ d.name \notin {"ephemeral", "webui"}
    \/ d.args # << >> /\ d.args[1] \notin {"true", "false", "1", "0"}
BadFile ==
    \/ \E i \in DOMAIN AppLevel : BadDirective(AppLevel[i])
    \/ \E i \in DOMAIN Blocks : \E j \in DOMAIN Blocks[i].body : BadDirective(Blocks[i].body[j])
LastOf(ds, name) ==
    LET I == {i \in DOMAIN ds : ds[i].name = name}
    IN  IF I = {} THEN << >> ELSE <<ds[CHOOSE i \in I : \A k \in I : k <= i]>>

C13_OAuthNeedsClientIDAndTags ==
    ( /\ rout.fn = "getAuthKey"
      /\ AuthKeyWinner.err = "nil" /\ HasOAuthPrefix(AuthKeyWinner.val)
      /\ \/ Getenv(env, Str("TS_API_CLIENT_ID")) = Empty
         \/ getTags(rin, app) = << >> )
    => (rout.r.err # "nil" /\ ~rout.r.exchange)

\* C14: an auth key without the OAuth client prefix is returned as it is,
\* with no key requested; when no source is set the result is the empty key
\* and no error, and the constructor goes on with it: it does not fail at the
\* auth key, and the server it builds has the key as resolved.
C14_DirectKeyUnchanged ==
    (AuthKeyWinner.err = "nil" /\ ~HasOAuthPrefix(AuthKeyWinner.val)) =>
        /\ rout.fn = "getAuthKey" =>
             (rout.r.val = AuthKeyWinner.val /\ rout.r.err = "nil" /\ ~rout.r.exchange)
        /\ rout.fn = "NewNode" =>
             /\ rout.r.step # "AuthKey" /\ ~rout.r.exchange
             /\ rout.r.err = "nil" => rout.r.cfg.AuthKey = AuthKeyWinner.val

C14_Witness ==
    /\ rout.fn = "NewNode"
    /\ AuthKeyWinner = Ok(Empty)
    /\ rout.r.err = "nil" /\ rout.r.cfg.AuthKey = Empty
    /\ rout.r.cfg.Hostname = rin

\* C15: a request whose server name matches a certificate domain of some
\* registered node goes to the local client of a node with a matching
\* domain; a request that matches no node, or has no server name, goes out
\* through the default transport.
C15_RoutedToMatchingNode ==
    ret.op = "roundtrip" =>
        IF ret.sni # NoHello /\ Matching(ret.sni) # {}
        THEN ret.res = "node" /\ ret.u \in Matching(ret.sni)
        ELSE ret.res = "default"

\* C16: the default transport is constructed at most once; nobody reads it
\* before the construction is over, and every request that goes out through
\* the default transport goes out through that one instance.
C16_DefaultTransportOnce ==
    /\ mux.made <= 1
    /\ Cardinality({p \in Procs : pc[p] = "make"}) <= 1
    /\ \A p \in Procs : pc[p] = "use" => (mux.once = "done" /\ mux.defaultTransport = 1)
    /\ (ret.op = "roundtrip" /\ ret.res = "default") => (ret.inst = 1 /\ mux.defaultTransport = 1)

C16_Witness ==
    /\ \E p, q \in Procs : pc[p] = "make" /\ pc[q] = "once"
    /\ mux.once = "running" /\ mux.defaultTransport = 0

\* C17: the hostname of node N is the expansion of the node-level hostname
\* override when one is configured and not empty, and N itself when the node
\* has no configuration, the override is empty, or there is no app.
C17_HostnameResolution ==
    /\ rout.fn = "getHostname" =>
         rout.r = (IF HasNode(app, rin) /\ app.Nodes[rin].Hostname # << >>
                   THEN ReplaceOrErr(app.Nodes[rin].Hostname, env)
                   ELSE Ok(rin))
    /\ rout.fn = "getHostnameNilApp" => rout.r = Ok(rin)

C17_Witness ==
    /\ rout.fn = "getHostname"
    /\ HasNode(app, rin) /\ app.Nodes[rin].Hostname = <<EnvPh("MYKEY")>>
    /\ rout.r = Ok(EnvValue(Str("MYKEY")))

\* The directory os.UserConfigDir returns.
ConfigRoot == Str("~cfg")

\* The path of the entry called elem in directory dir.
Subdir(dir, elem) ==
    (IF dir[Len(dir)] = "/" THEN SubSeq(dir, 1, Len(dir) - 1) ELSE dir) \o <<"/">> \o elem

\* C18: the state directory of node N is the expansion of the node-level
\* directory, as it is, when one is set; otherwise the subdirectory N of the
\* expansion of the app-level directory when one is set; otherwise the
\* subdirectory "tsnet-caddy-"N of the user's configuration directory.
C18_StateDirResolution ==
    rout.fn = "getStateDir" =>
        IF HasNode(app, rin) /\ app.Nodes[rin].StateDir # << >>
        THEN rout.r = ReplaceOrErr(app.Nodes[rin].StateDir, env)
        ELSE IF app.StateDir # << >>
        THEN LET d == ReplaceOrErr(app.StateDir, env)
             IN  rout.r = IF d.err = "nil" THEN Ok(Subdir(d.val, rin)) ELSE Err(d.err)
        ELSE rout.r \in {Ok(Subdir(ConfigRoot, <<"tsnet-caddy-">> \o rin)), Err("no config dir")}

C18_Witness ==
    /\ rout.fn = "getStateDir"
    /\ HasNode(app, rin) /\ app.Nodes[rin].StateDir = <<Lit("nv"), Lit("/")>>
    /\ app.StateDir = <<Lit("dv"), Lit("/")>>
    /\ rout.r = Ok(<<"nv", "/">>)

\* C19: provisioning, starting and stopping the App, whatever node blocks
\* it has, changes neither the registry nor any node; the registry is empty
\* until getNode is called, and an entry is only ever added by a getNode
\* call of a listener entry point or of the transport's Provision, for the
\* name that call asked for.
C19_NodesAreLazy ==
    /\ [](nacq = 0 => (pool = << >> /\ upvs = << >>))
    /\ [][ /\ ret'.op \in {"appProvision", "appStart", "appStop"} =>
                (pool' = pool /\ upvs' = upvs /\ lns' = lns)
           /\ (Len(upvs') # Len(upvs) \/ DOMAIN pool' \ DOMAIN pool # {}) =>
                /\ nacq' = nacq + 1
                /\ upvs' = Append(upvs, NewUpv(loc'["p1"].key))
                /\ DOMAIN pool' \ DOMAIN pool \subseteq {loc'["p1"].key}
                /\ loc'["p1"].op \in {"listen", "provision"} ]_vars

C19_Witness ==
    /\ ret.op = "appStart"
    /\ DOMAIN app.Nodes = Names
    /\ pool = << >> /\ upvs = << >> /\ nacq = 0

\* C20: the identity lookup for a request that came in through a listener
\* of a node, wrapped or not, is made with that node's local client; the
\* local daemon's client is used only when no listener of the server is a
\* node's.
C20_AuthUsesRequestsNode ==
    (ret.op = "authenticate" /\ ret.res = "ok") =>
        /\ findTsnetListener(rin[ret.via]).ok =>
              ret.whois = LocalClientOf(rin[ret.via].node)
        /\ ret.whois = Tailscaled =>
              \A i \in DOMAIN rin : rin[i].base # "tsnet"

\* Every listener so far releases under the name of the node it was opened on.
NoMismatch == \A l \in DOMAIN lns : lns[l].name = lns[l].host

\* The listeners handed out on entry u whose Close has not gone through.
Users(u) == {l \in DOMAIN lns : lns[l].node = u /\ ~lns[l].released}

\* C21: the transport takes one reference on its node in Provision and gives
\* that reference back in Cleanup: a Cleanup that decrements an entry
\* decrements the entry Provision got, and a Cleanup that shuts a node down
\* does so only when no listener and no caller in flight still uses it.
C21_TransportPairsProvisionAndCleanup ==
    (ret.op = "cleanup" /\ NoMismatch) =>
        /\ ret.found => tr.node = ret.u
        /\ ret.zero => (Users(ret.u) = {} /\ \A p \in Procs : loc[p].u # ret.u)

\* The state of node name N in the pool pl with the entries us.
NameState(pl, us, N) ==
    IF N \notin DOMAIN pl THEN "absent"
    ELSE IF us[pl[N]].state = "creating" THEN "creating" ELSE "active"

\* The moves of name N that a step may make.
Moves(N) ==
    LET s == NameState(pool, upvs, N)
        t == NameState(pool', upvs', N)
    IN  \/ s = t /\ (s # "absent" => pool'[N] = pool[N])
        \/ s = "absent" /\ t = "creating"
        \/ s = "creating" /\ t = "active" /\ pool'[N] = pool[N]
        \/ s = "active" /\ t = "absent"
        \/ s = "creating" /\ t = "absent" /\ upvs'[pool[N]].state = "failed"

\* While N is being created one caller constructs it and whoever else has
\* taken its entry waits.
InCreation(N) ==
    NameState(pool, upvs, N) = "creating" =>
        /\ Cardinality({p \in Procs : pc[p] = "construct" /\ loc[p].u = pool[N]}) = 1
        /\ Cardinality(Constructing(N)) = 1
        /\ \A p \in Procs : (loc[p].u = pool[N] /\ pc[p] # "construct") => pc[p] = "wait"

\* Whoever was given a node was given one whose construction had completed.
ReceivedComplete ==
    /\ \A p \in Procs : pc[p] = "got" => upvs[loc[p].u].state = "ready"
    /\ (ret.op \in {"listen", "provision"} /\ ret.res = "ok") => upvs[ret.u].state = "ready"
    /\ tr.node # 0 => upvs[tr.node].state = "ready"

\* C22: a node name moves only absent -> creating -> active -> absent, or
\* creating -> absent when the creation failed; an active name has a count
\* of at least one; while a name is in creating exactly one caller runs the
\* creation and every other acquirer of the entry waits; nobody is given an
\* entry whose creation has not completed.
C22_NameLifecycle ==
    /\ [](ReceivedComplete /\
          \A N \in Names :
              /\ InCreation(N)
              /\ NameState(pool, upvs, N) = "active" =>
                    (upvs[pool[N]].refs >= 1 /\ upvs[pool[N]].state = "ready"))
    /\ [][\A N \in Names : Moves(N)]_vars

\* The entries of name N that were released to zero and shut down.
ShutDown(N) == {u \in DOMAIN upvs : upvs[u].key = N /\ upvs[u].refs = 0 /\ upvs[u].closed}

\* The outcomes of a constructor that fails nowhere.
AllOk == [createKey |-> "ok", configDir |-> "ok", mkdir |-> "ok"]

\* C23: after an entry of N was released to zero and removed, an acquire of
\* N makes a new entry with one reference and constructs it: the settings
\* are resolved from the configuration then in effect, a key is requested
\* again for the OAuth client secret and differs from every key issued
\* before, and the pool never holds a node that was shut down.
C23_FreshCreationAfterRemoval ==
    /\ [](/\ \A n \in DOMAIN pool : ~upvs[pool[n]].closed
          /\ \A u, v \in DOMAIN upvs :
                (u # v /\ upvs[v].state = "ready") =>
                    (upvs[v].issue # 0 /\ upvs[v].issue # upvs[u].issue))
    /\ [][\A N \in Names :
            /\ (ShutDown(N) # {} /\ N \notin DOMAIN pool /\ N \in DOMAIN pool') =>
                  /\ pool'[N] = Len(upvs) + 1
                  /\ upvs'[pool'[N]] = NewUpv(N)
                  /\ \E p \in Procs : pc'[p] = "construct" /\ loc'[p].u = pool'[N]
            /\ \A v \in DOMAIN upvs :
                  (ShutDown(N) # {} /\ upvs[v].key = N
                   /\ upvs[v].state = "creating" /\ upvs'[v].state = "ready") =>
                      upvs'[v].cfg = NewNode(N, app, env, AllOk).cfg ]_vars

C23_Witness ==
    \E u, v \in DOMAIN upvs :
        /\ u < v /\ upvs[u].key = upvs[v].key
        /\ u \in ShutDown(upvs[u].key)
        /\ upvs[v].state = "ready" /\ upvs[v].refs = 1
        /\ upvs[v].key \in DOMAIN pool /\ pool[upvs[v].key] = v
        /\ upvs[v].cfg # upvs[u].cfg
        /\ upvs[u].issue # 0 /\ upvs[v].issue # upvs[u].issue

\* A runtime that was started (a listener was opened on it) and has not
\* been shut down.
Live(u) ==
    /\ upvs[u].state = "ready" /\ ~upvs[u].closed
    /\ \E l \in DOMAIN lns : lns[l].node = u

\* C24: with an acquire of N racing the release that takes N to zero, the
\* acquirer is given an entry that holds a reference and whose runtime is
\* not shut down, and at no time are two runtimes of one name live.  Stated
\* for runs in which every release so far was of a reference its caller
\* held (no transport, every listener named after its node).
C24_AcquireRacingLastRelease ==
    (NoMismatch /\ tr.state = "new") =>
        /\ \A p \in Procs :
              pc[p] = "got" => (upvs[loc[p].u].refs >= 1 /\ ~upvs[loc[p].u].closed)
        /\ \A N \in Names :
              Cardinality({u \in DOMAIN upvs : upvs[u].key = N /\ Live(u)}) <= 1

\* A step in which a listener entry point that holds a node returns an
\* error instead of a listener.
FailedEntry(p) == pc[p] = "got" /\ pc'[p] = "idle" /\ ret'.res = "err"

\* C25: a listener entry point that got node N and then fails gives its
\* reference back before it returns: the count of N's entry goes down by
\* one in that step, and N leaves the pool if that was its only reference.
C25_FailedEntryGivesBack ==
    [][\A p \in Procs :
          FailedEntry(p) =>
              /\ upvs'[loc[p].u].refs = upvs[loc[p].u].refs - 1
              /\ upvs[loc[p].u].refs = 1 => loc[p].key \notin DOMAIN pool']_vars

\* A step in which the Close of listener l goes through.
Closes(l) == l \in DOMAIN lns /\ ~lns[l].released /\ lns'[l].released

\* C26: the Close of a listener handed out by any of the three entry points
\* takes exactly one reference off the listener's node, and once every
\* listener opened on N is closed, with every acquire of N having yielded a
\* listener, N is out of the pool and its runtimes are shut down.
C26_EveryListenerReleases ==
    /\ [][\A l \in 1..MaxListeners :
            Closes(l) => upvs'[lns[l].node].refs = upvs[lns[l].node].refs - 1]_vars
    /\ [](\A N \in Names :
            (/\ Quiescent
             /\ OpenedOn(N) # {}
             /\ acq[N] = Cardinality(OpenedOn(N))
             /\ ClosedOn(N) = OpenedOn(N)) =>
                /\ N \notin DOMAIN pool
                /\ \A u \in DOMAIN upvs :
                      (upvs[u].key = N /\ upvs[u].state = "ready") => upvs[u].closed)

\* Name M has the same entry, with the same count and runtime, after the step.
Untouched(M) ==
    /\ (M \in DOMAIN pool) <=> (M \in DOMAIN pool')
    /\ M \in DOMAIN pool => (pool'[M] = pool[M] /\ upvs'[pool[M]] = upvs[pool[M]])

\* C27: the Close of a listener that was opened on node N leaves every
\* other name M as it is, also an M that is N's hostname: M's entry, count
\* and runtime are unchanged, and a runtime that the Close shuts down is one
\* of N.
C27_CloseTouchesOwnNodeOnly ==
    [][/\ \A l \in 1..MaxListeners :
            Closes(l) => \A M \in Names \ {lns[l].host} : Untouched(M)
       /\ \A p \in Procs :
            (pc[p] = "destruct" /\ loc[p].op = "close" /\ pc'[p] = "idle") =>
                upvs[loc[p].u].key = loc[p].owner]_vars

\* A step in which the creation that p runs fails.
FailedCreation(p) ==
    pc[p] = "construct" /\ pc'[p] # "construct" /\ upvs'[loc[p].u].state = "failed"

\* C28: a creation of N that fails leaves every other name as it was (its
\* entry, count and runtime) and every listener; an acquirer waits only on
\* an entry of the name it asked for, and is given an error only when the
\* creation of that entry failed.
C28_FailedCreationIsLocal ==
    /\ [][\A p \in Procs :
            FailedCreation(p) =>
                /\ \A M \in Names \ {loc[p].key} : Untouched(M)
                /\ \A w \in DOMAIN upvs : w # loc[p].u => upvs'[w] = upvs[w]
                /\ lns' = lns]_vars
    /\ [](/\ \A p \in Procs :
               pc[p] \in {"wait", "construct"} => upvs[loc[p].u].key = loc[p].key
          /\ (ret.op \in ListenOps \cup {"provision"} /\ ret.res = "err" /\ ret.l = 0 /\ ret.u # 0
              /\ upvs[ret.u].state # "ready") =>
                 (upvs[ret.u].key = ret.key /\ upvs[ret.u].state = "failed"))

\* The creation of one name failed, on the token exchange or on a
\* placeholder, and an entry of another name made after it is running.
C28_Witness ==
    \E u, v \in DOMAIN upvs :
        /\ u < v /\ upvs[u].key # upvs[v].key
        /\ upvs[u].state = "failed"
        /\ upvs[u].err \in {"failed to create auth key", "unrecognized placeholder"}
        /\ upvs[v].state = "ready"
        /\ upvs[v].key \in DOMAIN pool /\ pool[upvs[v].key] = v

\* A step in which p starts an acquire of a name that is registered.
AcquireHit(p, N) ==
    pc[p] = "idle" /\ nacq' = nacq + 1 /\ loc'[p].key = N /\ N \in DOMAIN pool

\* C29: an acquire of a registered name adds one to the count of its entry
\* and nothing else: no entry is made, no constructor runs, no key is
\* requested, and the caller is given the runtime of that entry; the
\* settings and the key of a runtime never change after its creation, also
\* when the configuration in effect has changed.
C29_HitOnlyCounts ==
    [][/\ \A p \in Procs, N \in Names :
            AcquireHit(p, N) =>
                /\ pool' = pool
                /\ upvs' = [upvs EXCEPT ![pool[N]].refs = @ + 1]
                /\ pc'[p] = "wait" /\ loc'[p].u = pool[N]
       /\ \A p \in Procs :
            (pc[p] = "wait" /\ pc'[p] # "wait") =>
                /\ upvs' = upvs /\ pool' = pool
                /\ pc'[p] = "got" => loc'[p].u = loc[p].u
                /\ pc'[p] = "idle" => ret'.u = loc[p].u
       /\ \A u \in DOMAIN upvs :
            upvs[u].state = "ready" =>
                (upvs'[u].cfg = upvs[u].cfg /\ upvs'[u].issue = upvs[u].issue)]_vars

\* With the second configuration in effect (no acquire is in flight when a
\* configuration is loaded), a caller has taken a reference on a runtime
\* that a listener uses and whose settings are those of the first
\* configuration, not those the second one gives.
C29_Witness ==
    \E p \in Procs :
        /\ pc[p] = "wait" /\ app = SecondApp
        /\ upvs[loc[p].u].state = "ready" /\ upvs[loc[p].u].refs = 2
        /\ \E l \in DOMAIN lns : lns[l].node = loc[p].u /\ ~lns[l].released
        /\ upvs[loc[p].u].cfg # NewNode(loc[p].key, app, env, AllOk).cfg
        /\ upvs[loc[p].u].cfg = NewNode(loc[p].key, FirstApp, env, AllOk).cfg

\* C30: a request that the router sends to a node's local client is never
\* sent to a node whose count has reached zero and whose runtime has been
\* shut down.
C30_DispatchOnlyToRegistered ==
    (ret.op = "roundtrip" /\ ret.res = "node") =>
        ~(upvs[ret.u].refs = 0 /\ upvs[ret.u].closed)

=============================================================================
